---- MODULE Spec2Model ----
(***************************************************************************)
(* Model of the compliance window computation of the mail updater          *)
(* (src/app/compliance_snapshot.py).                                       *)
(*                                                                         *)
(* Time: an instant is an integer number of minutes since 00:00 UTC of     *)
(* day 0; a date is an integer number of days since day 0.  A timezone is  *)
(* a record with the offset pytz.astimezone applies (utcoffset, constant   *)
(* over the modelled days: no daylight-saving transition falls inside      *)
(* them) and the offset of the zone object itself when it is handed to a   *)
(* datetime constructor as tzinfo (lmt: pytz takes the first entry of the  *)
(* zone's transition table, which is the local mean time of the zone).     *)
(***************************************************************************)
EXTENDS Integers, Sequences, FiniteSets, Bags, TLC

VARIABLES
  resolver,        \* the boundary resolver exercised on its own
  feed_requests,   \* compliance.db table feed_requests, a bag of rows
  engagements,     \* compliance.db table engagements, a bag of rows
  settings,        \* the Settings object handed to the computations
  result,          \* the last call of an entry point and what it returned
  participants,    \* mail.db table participants, rows in participant_id order
  participant_status_history,  \* mail.db table participant_status_history
  outbox,          \* the calls of MailSender.send, in order
  send_attempts,   \* mail.db table send_attempts, rows in attempt_id order
  schema_version,  \* mail.db metadata: the recorded schema_version, 0 when new
  mailbox,         \* the IMAP bounce mailbox, messages in message-id order
  sessions         \* the status changes other processes have under way

\* The part of mail.db and of its surroundings that the roster operations
\* and send-daily leave alone.
MailRest == <<send_attempts, schema_version, mailbox, sessions>>

\* mail.db and the messages handed to the mailer
mail == <<participants, participant_status_history, outbox, MailRest>>

vars == <<resolver, feed_requests, engagements, settings, result, mail>>

SCHEMA_VERSION == 3

\* No other process has a status change under way.
NoSessions == <<>>

\* No send attempt yet, the schema current, the bounce mailbox empty.
MailRestInit ==
  /\ send_attempts = <<>>
  /\ schema_version = SCHEMA_VERSION
  /\ mailbox = <<>>
  /\ sessions = NoSessions

\* mail.db at the current schema with empty tables, nothing sent yet.
MailEmpty ==
  /\ participants = <<>>
  /\ participant_status_history = <<>>
  /\ outbox = <<>>
  /\ MailRestInit

MinutesPerHour == 60
MinutesPerDay == 1440

\* Number of calendar days of instants the resolver is exercised on.
MaxDay == 2

\* pytz.timezone(settings.tz): UTC, the default Europe/Amsterdam and a zone
\* west of Greenwich.  Offsets in minutes east of UTC.
Zones ==
  { [name |-> "UTC", utcoffset |-> 0, lmt |-> 0],
    [name |-> "Europe/Amsterdam", utcoffset |-> 60, lmt |-> 20],
    [name |-> "America/New_York", utcoffset |-> -300, lmt |-> -296] }

CutoffHours == 0..23

Instants == 0..(MaxDay * MinutesPerDay - 1)

\* dt.astimezone(tz): the local wall clock of a UTC instant, as minutes
\* since local 00:00 of day 0.
astimezone(dt, tz) == dt + tz.utcoffset

\* local_dt.date()
date_of(local_dt) == local_dt \div MinutesPerDay

\* local_dt.timetz().replace(tzinfo=None), as minutes since local midnight
time_of(local_dt) == local_dt % MinutesPerDay

\* time(hour=cutoff_hour)
time_hour(cutoff_hour) == cutoff_hour * MinutesPerHour

\* time(hour=cutoff_hour) raises ValueError unless 0 <= hour <= 23.
time_hour_accepted(cutoff_hour) == cutoff_hour >= 0 /\ cutoff_hour <= 23

_study_day_for_local_le(local_dt, cutoff_hour) ==
  IF time_of(local_dt) <= time_hour(cutoff_hour)
    THEN date_of(local_dt) - 1
    ELSE date_of(local_dt)

_study_day_for_local(local_dt, cutoff_hour) ==
  IF time_of(local_dt) < time_hour(cutoff_hour)
    THEN date_of(local_dt) - 1
    ELSE date_of(local_dt)

_study_day_for_utc(dt, tz, cutoff_hour) ==
  _study_day_for_local(astimezone(dt, tz), cutoff_hour)

\* datetime.combine(day, time(hour=cutoff_hour), tzinfo=tz).astimezone(utc):
\* the wall clock is read with the offset of the zone object itself.
_study_day_start(day, tz, cutoff_hour) ==
  (day * MinutesPerDay + time_hour(cutoff_hour)) - tz.lmt


(***************************************************************************)
(* Settings (src/app/config.py) and the activity store (compliance.db).    *)
(* The store keeps its timestamps as UTC ISO-8601 text written by          *)
(* datetime.isoformat(), for which the text order SQLite compares by is    *)
(* the order of the instants; a timestamp is modelled by its instant.      *)
(***************************************************************************)
Zone(name) == CHOOSE z \in Zones : z.name = name

\* Settings(): the defaults of the dataclass and of the requirements.
DefaultSettings ==
  [tz |-> Zone("Europe/Amsterdam"), window_days |-> 14,
   required_active_days |-> 10, cutoff_hour_local |-> 5,
   min_retrievals |-> 1, min_engagement |-> 3]

\* Largest window_days and required_active_days of the settings explored.
MaxWindow == 3
MaxRequired == 2

\* Number of days that carry activity and on which `now` may fall.
MaxEventDay == 3

\* The participant the computations are made for, and another user of the
\* feed whose rows are in the same tables.
Participants == {"did:a"}
OtherDIDs == {"did:b"}

\* The roster: every DID the batch and mail.db deal with.
Roster == Participants \cup OtherDIDs

EngagementTypes == {"like", "reply", "repost"}

\* Timezone, cutoff hour and the study requirements (min_retrievals,
\* min_engagement): the tests' UTC/0 and the defaults Europe/Amsterdam/5,
\* both with the default requirements 1 and 3, and a zone west of Greenwich
\* with the requirements 1 and 2 of tests/test_cli_cache.py.
Profiles ==
  { [tz |-> Zone("UTC"), cutoff_hour_local |-> 0,
     min_retrievals |-> 1, min_engagement |-> 3],
    [tz |-> Zone("Europe/Amsterdam"), cutoff_hour_local |-> 5,
     min_retrievals |-> 1, min_engagement |-> 3],
    [tz |-> Zone("America/New_York"), cutoff_hour_local |-> 0,
     min_retrievals |-> 1, min_engagement |-> 2] }

SettingsSet ==
  { [tz |-> p.tz, window_days |-> w, required_active_days |-> r,
     cutoff_hour_local |-> p.cutoff_hour_local,
     min_retrievals |-> p.min_retrievals, min_engagement |-> p.min_engagement] :
      p \in Profiles, w \in 1..MaxWindow, r \in 1..MaxRequired }

\* Minutes after 00:00 UTC at which activity is recorded, and the instants
\* `now` is drawn from (noon UTC of each day).
EventOffsets == {260, 298}
EventDays == 0..(MaxEventDay - 1)
EventTimes ==
  { d * MinutesPerDay + o : d \in EventDays, o \in EventOffsets }
NowTimes == { d * MinutesPerDay + 720 : d \in EventDays }

\* What one insertion records: a number of retrievals at the instant and
\* the categories of the engagements five minutes later.
ActivityKinds ==
  { [retrievals |-> 0, engagement_types |-> <<"like">>],
    [retrievals |-> 2, engagement_types |-> <<"like", "like">>],
    [retrievals |-> 1, engagement_types |-> <<"like", "reply", "repost">>] }

Range(seq) == { seq[i] : i \in DOMAIN seq }

\* The sub-bag of B of the elements in S.
BagOn(B, S) == [x \in S \cap DOMAIN B |-> B[x]]

RECURSIVE SeqToBag(_)
SeqToBag(seq) ==
  IF seq = <<>> THEN EmptyBag
  ELSE SetToBag({Head(seq)}) (+) SeqToBag(Tail(seq))

\* tests' _insert_activity: `retrievals` rows into feed_requests at ts and
\* one engagements row per category at ts + 5 minutes.
FeedRowsFor(did, ts, kind) ==
  IF kind.retrievals > 0
    THEN [r \in {[requester_did |-> did, timestamp |-> ts]} |-> kind.retrievals]
    ELSE EmptyBag

EngagementRowsFor(did, ts, kind) ==
  LET types == SeqToBag(kind.engagement_types)
  IN  [r \in {[did_engagement |-> did, timestamp |-> ts + 5, engagement_type |-> et] :
                et \in DOMAIN types} |-> types[r.engagement_type]]

InsertActivity(did, ts, kind) ==
  /\ feed_requests' = feed_requests (+) FeedRowsFor(did, ts, kind)
  /\ engagements' = engagements (+) EngagementRowsFor(did, ts, kind)

\* The rows of the other user of the feed: one retrieval and a like, a reply
\* and a repost on day 0.
OtherActivityKind ==
  [retrievals |-> 1, engagement_types |-> <<"like", "reply", "repost">>]
FeedOfOthers ==
  FeedRowsFor("did:b", 260, OtherActivityKind)
EngagementsOfOthers ==
  EngagementRowsFor("did:b", 260, OtherActivityKind)

\* The calendar day (UTC) of an instant of the store.
UtcDay(ts) == ts \div MinutesPerDay

\* did has rows recorded on the calendar day of ts.
RecordedOn(did, ts) ==
  \/ \E r \in DOMAIN feed_requests :
       r.requester_did = did /\ UtcDay(r.timestamp) = UtcDay(ts)
  \/ \E r \in DOMAIN engagements :
       r.did_engagement = did /\ UtcDay(r.timestamp) = UtcDay(ts)

(***************************************************************************)
(* compute_window_summary and its helpers.                                 *)
(***************************************************************************)
None == [some |-> FALSE]
Some(v) == [some |-> TRUE, value |-> v]

SetMin(S) == CHOOSE x \in S : \A y \in S : x <= y

\* SELECT MIN(timestamp) FROM feed_requests WHERE requester_did = :did
_fetch_single_timestamp_zero(user_did) ==
  LET rows == {r \in DOMAIN feed_requests : r.requester_did = user_did}
  IN  IF rows = {} THEN Some(0) ELSE Some(SetMin({r.timestamp : r \in rows}))

_fetch_single_timestamp(user_did) ==
  LET rows == {r \in DOMAIN feed_requests : r.requester_did = user_did}
  IN  IF rows = {} THEN None ELSE Some(SetMin({r.timestamp : r \in rows}))

\* SELECT timestamp FROM feed_requests WHERE requester_did = :did
\*   AND timestamp >= :start AND timestamp < :end         (a bag of instants)
_fetch_timestamps_any(user_did, start, end) ==
  LET rows == {r \in DOMAIN feed_requests :
                 /\ r.timestamp >= start
                 /\ r.timestamp < end}
  IN  [ts \in {r.timestamp : r \in rows} |->
         BagCardinality(BagOn(feed_requests,
           {r \in rows : r.timestamp = ts}))]

_fetch_timestamps(user_did, start, end) ==
  LET rows == {r \in DOMAIN feed_requests :
                 /\ r.requester_did = user_did
                 /\ r.timestamp >= start
                 /\ r.timestamp < end}
  IN  [ts \in {r.timestamp : r \in rows} |->
         feed_requests[[requester_did |-> user_did, timestamp |-> ts]]]

\* SELECT timestamp, engagement_type FROM engagements WHERE did_engagement = :did
\*   AND timestamp >= :start AND timestamp < :end         (a bag of pairs)
_fetch_engagement_records(user_did, start, end) ==
  LET rows == {r \in DOMAIN engagements :
                 /\ r.did_engagement = user_did
                 /\ r.timestamp >= start
                 /\ r.timestamp < end}
  IN  [rec \in {<<r.timestamp, r.engagement_type>> : r \in rows} |->
         engagements[[did_engagement |-> user_did, timestamp |-> rec[1],
                      engagement_type |-> rec[2]]]]

RECURSIVE _generate_day_range_exclusive(_, _)
_generate_day_range_exclusive(start_day, end_day) ==
  IF start_day < end_day
    THEN <<start_day>> \o _generate_day_range_exclusive(start_day + 1, end_day)
    ELSE <<>>

RECURSIVE _generate_day_range(_, _)
_generate_day_range(start_day, end_day) ==
  IF start_day <= end_day
    THEN <<start_day>> \o _generate_day_range(start_day + 1, end_day)
    ELSE <<>>

\* counts[day] for every day of day_range; a timestamp whose study day is
\* not in day_range is skipped.
_aggregate_counts(day_range, timestamps, tz, cutoff_hour) ==
  [day \in Range(day_range) |->
     BagCardinality(BagOn(timestamps,
       {ts \in DOMAIN timestamps : _study_day_for_utc(ts, tz, cutoff_hour) = day}))]

\* (total_counts, breakdown): per day of day_range the number of records and
\* the number per engagement_type (types without a record have no key).
\* breakdown[day]: the number of records per engagement_type among the
\* records of one day.
breakdown_of(day_records) ==
  [et \in {rec[2] : rec \in DOMAIN day_records} |->
     BagCardinality(BagOn(day_records,
       {rec \in DOMAIN day_records : rec[2] = et}))]

_aggregate_engagement_counts(day_range, records, tz, cutoff_hour) ==
  LET on(day) == BagOn(records,
                   {rec \in DOMAIN records :
                      _study_day_for_utc(rec[1], tz, cutoff_hour) = day})
  IN  [total_counts |-> [day \in Range(day_range) |-> BagCardinality(on(day))],
       breakdown |-> [day \in Range(day_range) |-> breakdown_of(on(day))]]

Max(a, b) == IF a >= b THEN a ELSE b

\* active = retrievals >= 1 and engagements >= 3
is_active(retrievals, engagements_) == retrievals >= 1 /\ engagements_ >= 3

\* if active: cumulative_active += 1
accumulate_streak(cumulative_active, active) ==
  IF active THEN cumulative_active + 1 ELSE 0

accumulate(cumulative_active, active) ==
  IF active THEN cumulative_active + 1 ELSE cumulative_active

\* potential = cumulative_active + max(window_days - days_passed, 0),
\* plus 1 if the day is not active
potential_last_day_only(cumulative_active, window_days, days_passed, active) ==
  cumulative_active + Max(window_days - days_passed, 0)
    + (IF ~active /\ days_passed >= window_days THEN 1 ELSE 0)

potential_of(cumulative_active, window_days, days_passed, active) ==
  cumulative_active + Max(window_days - days_passed, 0)
    + (IF active THEN 0 ELSE 1)

\* on_track = potential >= required_active_days
on_track_exactly(potential, required_active_days) ==
  potential = required_active_days

on_track_of(potential, required_active_days) ==
  potential >= required_active_days

RECURSIVE _build_snapshots_from(_, _, _, _, _, _, _, _)
_build_snapshots_from(index, cumulative_active, day_range, retrieval_counts, engagement_counts, engagement_breakdowns, window_days, required_active_days) ==
  IF index >= Len(day_range) THEN <<>>
  ELSE
    LET day == day_range[index + 1]
        retrievals == retrieval_counts[day]
        engagements_ == engagement_counts[day]
        active == is_active(retrievals, engagements_)
        cumulative == accumulate(cumulative_active, active)
        days_passed == index + 1
        potential == potential_of(cumulative, window_days, days_passed, active)
        on_track == on_track_of(potential, required_active_days)
    IN  << [study_day |-> day,
            retrievals |-> retrievals,
            engagements |-> engagements_,
            active_day |-> active,
            cumulative_active |-> cumulative,
            on_track |-> on_track,
            engagement_breakdown |-> engagement_breakdowns[day]] >>
        \o _build_snapshots_from(index + 1, cumulative, day_range, retrieval_counts,
                                 engagement_counts, engagement_breakdowns,
                                 window_days, required_active_days)

_build_snapshots(day_range, retrieval_counts, engagement_counts, engagement_breakdowns, window_days, required_active_days) ==
  _build_snapshots_from(0, 0, day_range, retrieval_counts, engagement_counts,
                        engagement_breakdowns, window_days, required_active_days)

\* max(first_study_day, current_study_day - timedelta(days=window_days - 1))
window_start_day_off_by_one(first_study_day, current_study_day, window_days) ==
  Max(first_study_day, current_study_day - window_days)

window_start_day_of(first_study_day, current_study_day, window_days) ==
  Max(first_study_day, current_study_day - (window_days - 1))

\* active_days_total = snapshots[-1].cumulative_active
active_days_total_first(snapshots) == snapshots[1].cumulative_active

active_days_total_of(snapshots) == snapshots[Len(snapshots)].cumulative_active

\* on_track = snapshots[-1].on_track
summary_on_track_first(snapshots) == snapshots[1].on_track

summary_on_track_of(snapshots) == snapshots[Len(snapshots)].on_track

\* Lines 87-102 and 288-303, shared by the two entry points: the day range,
\* the two range queries, the per-day aggregation and the snapshots.
snapshots_for(user_did, s, start_day, end_day, window_start_ts, window_end_ts) ==
  LET day_range == _generate_day_range(start_day, end_day)
      retrieval_counts ==
        _aggregate_counts(day_range,
                          _fetch_timestamps(user_did, window_start_ts, window_end_ts),
                          s.tz, s.cutoff_hour_local)
      agg == _aggregate_engagement_counts(
               day_range,
               _fetch_engagement_records(user_did, window_start_ts, window_end_ts),
               s.tz, s.cutoff_hour_local)
  IN  _build_snapshots(day_range, retrieval_counts, agg.total_counts, agg.breakdown,
                       s.window_days, s.required_active_days)

\* Lines 104-117: None for an empty sequence, else the WindowSummary.
window_summary_of(user_did, s, now, snapshots) ==
  IF snapshots = <<>> THEN None
  ELSE Some([user_did |-> user_did,
             snapshots |-> snapshots,
             active_days |-> active_days_total_of(snapshots),
             required_active_days |-> s.required_active_days,
             window_days |-> s.window_days,
             on_track |-> summary_on_track_of(snapshots),
             computed_at |-> now])

\* Lines 57-117, once the earliest retrieval is known.
window_summary_from(user_did, s, now, current_study_day, first_study_day) ==
  window_summary_of(user_did, s, now,
    snapshots_for(
      user_did, s,
      window_start_day_of(first_study_day, current_study_day, s.window_days),
      current_study_day,
      _study_day_start(
        window_start_day_of(first_study_day, current_study_day, s.window_days),
        s.tz, s.cutoff_hour_local),
      _study_day_start(current_study_day + 1, s.tz, s.cutoff_hour_local)))

\* Lines 49-59, given the result of the MIN(timestamp) query.
window_summary_after(user_did, s, now, first_request_ts) ==
  IF ~first_request_ts.some THEN None
  ELSE window_summary_from(
         user_did, s, now,
         _study_day_for_local(astimezone(now, s.tz), s.cutoff_hour_local),
         _study_day_for_utc(first_request_ts.value, s.tz, s.cutoff_hour_local))

\* A ValueError that leaves compute_window_summary.
ValueError == [some |-> FALSE, raised |-> TRUE]

\* The value compute_window_summary returns, None or Some(WindowSummary), or
\* the ValueError of time(hour=cutoff_hour) at line 47, before any query.
compute_window_summary(user_did, s, now) ==
  IF ~time_hour_accepted(s.cutoff_hour_local) THEN ValueError
  ELSE window_summary_after(user_did, s, now, _fetch_single_timestamp(user_did))

\* The store queries one call issues, in the order it issues them.
RangeQueries == <<"feed_requests", "engagements">>

\* Lines 263-304, once the defaults are applied to the bounds: the
\* ValueError of line 264 (raised, nothing returned), or the snapshots and
\* the queries issued on the way.
breakdown_between_late(user_did, s, start_day, end_day) ==
  IF start_day > end_day
    THEN [raised |-> TRUE, queries |-> RangeQueries, snapshots |-> <<>>]
  ELSE [raised |-> FALSE, queries |-> RangeQueries,
        snapshots |->
          snapshots_for(user_did, s, start_day, end_day,
            _study_day_start(start_day, s.tz, s.cutoff_hour_local),
            _study_day_start(end_day + 1, s.tz, s.cutoff_hour_local))]

breakdown_between_short(user_did, s, start_day, end_day) ==
  IF start_day > end_day
    THEN [raised |-> TRUE, queries |-> <<>>, snapshots |-> <<>>]
  ELSE [raised |-> FALSE, queries |-> RangeQueries,
        snapshots |->
          snapshots_for(user_did, s, start_day, end_day,
            _study_day_start(start_day, s.tz, s.cutoff_hour_local),
            _study_day_start(end_day, s.tz, s.cutoff_hour_local))]

breakdown_between(user_did, s, start_day, end_day) ==
  IF start_day > end_day
    THEN [raised |-> TRUE, queries |-> <<>>, snapshots |-> <<>>]
  ELSE [raised |-> FALSE, queries |-> RangeQueries,
        snapshots |->
          snapshots_for(user_did, s, start_day, end_day,
            _study_day_start(start_day, s.tz, s.cutoff_hour_local),
            _study_day_start(end_day + 1, s.tz, s.cutoff_hour_local))]

\* Lines 260-261: end_day or default_end_day, then
\* start_day or (end_day - timedelta(days=window_days - 1)).
breakdown_from_window(user_did, s, start_day, end_day) ==
  breakdown_between(
    user_did, s,
    IF start_day.some THEN start_day.value ELSE end_day - s.window_days,
    end_day)

breakdown_from(user_did, s, start_day, end_day) ==
  breakdown_between(
    user_did, s,
    IF start_day.some THEN start_day.value ELSE end_day - (s.window_days - 1),
    end_day)

\* The value get_daily_engagement_breakdown returns, or the ValueError it
\* raises; start_day and end_day are None or Some(day).
get_daily_engagement_breakdown(user_did, s, start_day, end_day, now) ==
  IF ~time_hour_accepted(s.cutoff_hour_local)
    THEN [raised |-> TRUE, queries |-> <<>>, snapshots |-> <<>>]
  ELSE breakdown_from(
         user_did, s, start_day,
         IF end_day.some THEN end_day.value
         ELSE _study_day_for_local(astimezone(now, s.tz), s.cutoff_hour_local))

Idle == [op |-> "idle"]

\* One call of get_daily_engagement_breakdown(engine, user_did, settings,
\* start_day=..., end_day=..., now=...).
GetDailyEngagementBreakdown(user_did, start_day, end_day, now) ==
  /\ result = Idle
  /\ result' = [op |-> "get_daily_engagement_breakdown", user_did |-> user_did,
                start_day |-> start_day, end_day |-> end_day, now |-> now,
                ret |-> get_daily_engagement_breakdown(user_did, settings,
                                                       start_day, end_day, now)]
  /\ UNCHANGED <<feed_requests, engagements, settings, resolver, mail>>

\* One call of compute_window_summary(engine, user_did, settings, now).
ComputeWindowSummary(user_did, now) ==
  /\ result = Idle
  /\ result' = [op |-> "compute_window_summary", user_did |-> user_did,
                now |-> now, ret |-> compute_window_summary(user_did, settings, now)]
  /\ UNCHANGED <<feed_requests, engagements, settings, resolver, mail>>

(***************************************************************************)
(* The boundary resolver exercised on its own: an instant is mapped to its *)
(* study day, the day to its start (and the start of the day after), and   *)
(* the start back to a study day.                                          *)
(***************************************************************************)
StoreUnchanged ==
  UNCHANGED <<feed_requests, engagements, settings, result, mail>>

ResolverIdle ==
  [pc |-> "idle", dt |-> 0, tz |-> Zone("UTC"),
   cutoff_hour |-> 0, day |-> 0, start |-> 0, next_start |-> 0, day2 |-> 0]

InitDay ==
  /\ \E dt \in Instants, tz \in Zones, cutoff_hour \in CutoffHours :
       resolver = [ResolverIdle EXCEPT !.pc = "input", !.dt = dt, !.tz = tz,
                                       !.cutoff_hour = cutoff_hour]
  /\ feed_requests = EmptyBag
  /\ engagements = EmptyBag
  /\ settings = DefaultSettings
  /\ result = Idle
  /\ MailEmpty

StudyDayFor ==
  /\ resolver.pc = "input"
  /\ resolver' = [resolver EXCEPT
       !.pc = "day",
       !.day = _study_day_for_utc(resolver.dt, resolver.tz, resolver.cutoff_hour)]
  /\ StoreUnchanged

StudyDayStart ==
  /\ resolver.pc = "day"
  /\ resolver' = [resolver EXCEPT
       !.pc = "start",
       !.start = _study_day_start(resolver.day, resolver.tz, resolver.cutoff_hour),
       !.next_start = _study_day_start(resolver.day + 1, resolver.tz,
                                       resolver.cutoff_hour)]
  /\ StoreUnchanged

RoundTrip ==
  /\ resolver.pc = "start"
  /\ resolver' = [resolver EXCEPT
       !.pc = "done",
       !.day2 = _study_day_for_utc(resolver.start, resolver.tz,
                                   resolver.cutoff_hour)]
  /\ StoreUnchanged

NextDay == StudyDayFor \/ StudyDayStart \/ RoundTrip

SpecDay == InitDay /\ [][NextDay]_vars

(***************************************************************************)
(* The window computation over a store that receives activity.  The store  *)
(* is read by one call at a time and does not change while the value a     *)
(* call returned is held.                                                  *)
(***************************************************************************)
InitWindow ==
  /\ resolver = ResolverIdle
  /\ feed_requests = FeedOfOthers
  /\ engagements = EngagementsOfOthers
  /\ settings \in SettingsSet
  /\ result = Idle
  /\ MailEmpty

\* A participant's activity of one calendar day is recorded in one go.
RecordActivity ==
  \E did \in Participants, ts \in EventTimes, kind \in ActivityKinds :
    /\ result = Idle
    /\ ~RecordedOn(did, ts)
    /\ InsertActivity(did, ts, kind)
    /\ UNCHANGED <<settings, resolver, result, mail>>

\* The caller is done with the value the call returned.
Return ==
  /\ result # Idle
  /\ result' = Idle
  /\ UNCHANGED <<feed_requests, engagements, settings, resolver, mail>>

CallComputeWindowSummary ==
  \E user_did \in Participants, now \in NowTimes :
    ComputeWindowSummary(user_did, now)

\* The day-range query from day 0 on, end_day left to its default.
CallGetDailyEngagementBreakdown ==
  \E user_did \in Participants, now \in NowTimes :
    GetDailyEngagementBreakdown(user_did, Some(0), None, now)

\* The day-range query with each bound given or left out.
OptionalDays == {None} \cup { Some(d) : d \in EventDays }

CallBreakdownOverRange ==
  \E user_did \in Participants, now \in NowTimes,
     start_day \in OptionalDays, end_day \in OptionalDays :
    GetDailyEngagementBreakdown(user_did, start_day, end_day, now)

\* The participant's first activity is recorded.
RecordFirstActivity ==
  \E did \in Participants, ts \in EventTimes, kind \in ActivityKinds :
    /\ result = Idle
    /\ \A r \in DOMAIN feed_requests : r.requester_did # did
    /\ \A r \in DOMAIN engagements : r.did_engagement # did
    /\ InsertActivity(did, ts, kind)
    /\ UNCHANGED <<settings, resolver, result, mail>>

NextWindow ==
  \/ RecordActivity
  \/ CallComputeWindowSummary
  \/ CallGetDailyEngagementBreakdown
  \/ Return

SpecWindow == InitWindow /\ [][NextWindow]_vars

(***************************************************************************)
(* The two entry points side by side: the day-range query is called over   *)
(* the days of the summary compute_window_summary just returned.           *)
(***************************************************************************)
CallBreakdownOfSummary ==
  /\ result.op = "compute_window_summary"
  /\ result.ret.some
  /\ LET snapshots == result.ret.value.snapshots
         start_day == Some(snapshots[1].study_day)
         end_day == Some(snapshots[Len(snapshots)].study_day)
     IN  result' = [op |-> "get_daily_engagement_breakdown",
                    user_did |-> result.user_did,
                    start_day |-> start_day, end_day |-> end_day,
                    now |-> result.now,
                    ret |-> get_daily_engagement_breakdown(
                              result.user_did, settings, start_day, end_day,
                              result.now),
                    summary |-> result.ret.value]
  /\ UNCHANGED <<feed_requests, engagements, settings, resolver, mail>>

NextAgree ==
  \/ RecordActivity
  \/ CallComputeWindowSummary
  \/ CallBreakdownOfSummary
  \/ CallGetDailyEngagementBreakdown
  \/ Return

SpecAgree == InitWindow /\ [][NextAgree]_vars

(***************************************************************************)
(* The batch of cli._summaries_for_participants: one computation per       *)
(* participant of the roster, in roster order, while the feed generator    *)
(* goes on writing the rows of other users.                                *)
(***************************************************************************)
RosterOrders ==
  { order \in [1..Cardinality(Roster) -> Roster] :
      \A i, j \in DOMAIN order : i # j => order[i] # order[j] }

\* Instants at which the other user's activity is recorded or removed.
OtherEventTimes == {260, MinutesPerDay + 260}

RecordOtherActivity ==
  \E did \in OtherDIDs, ts \in OtherEventTimes :
    /\ ~RecordedOn(did, ts)
    /\ InsertActivity(did, ts, OtherActivityKind)
    /\ UNCHANGED <<settings, resolver, result, mail>>

RemoveOtherActivity ==
  \E did \in OtherDIDs, ts \in OtherEventTimes :
    /\ RecordedOn(did, ts)
    /\ feed_requests' = feed_requests (-) FeedRowsFor(did, ts, OtherActivityKind)
    /\ engagements' = engagements (-) EngagementRowsFor(did, ts, OtherActivityKind)
    /\ UNCHANGED <<settings, resolver, result, mail>>

\* _summaries_for_participants(settings, participants): summaries = {}
StartSummaries ==
  \E order \in RosterOrders, now \in NowTimes :
    /\ result = Idle
    /\ result' = [op |-> "_summaries_for_participants", now |-> now,
                  participants |-> order, index |-> 0,
                  summaries |-> [did \in {} |-> None]]
    /\ UNCHANGED <<feed_requests, engagements, settings, resolver, mail>>

\* One turn of the loop: summary = compute_window_summary(...);
\* if summary: summaries[participant.user_did] = summary
SummariesStep ==
  /\ result.op = "_summaries_for_participants"
  /\ result.index < Len(result.participants)
  /\ LET user_did == result.participants[result.index + 1]
         ret == compute_window_summary(user_did, settings, result.now)
     IN  result' = [result EXCEPT
           !.index = result.index + 1,
           !.summaries =
             IF ret.some
               THEN [did \in DOMAIN result.summaries \cup {user_did} |->
                       IF did = user_did THEN ret.value ELSE result.summaries[did]]
               ELSE result.summaries]
  /\ UNCHANGED <<feed_requests, engagements, settings, resolver, mail>>

NextBatch ==
  \/ RecordFirstActivity
  \/ RecordOtherActivity
  \/ RemoveOtherActivity
  \/ StartSummaries
  \/ SummariesStep
  \/ Return

SpecBatch == InitWindow /\ [][NextBatch]_vars

(***************************************************************************)
(* The day-range query called with every combination of bounds, over a     *)
(* store that holds at most one day of the participant's activity.         *)
(***************************************************************************)
NextRange ==
  \/ RecordFirstActivity
  \/ CallBreakdownOverRange
  \/ Return

SpecRange == InitWindow /\ [][NextRange]_vars

(***************************************************************************)
(* Loading and overriding the configuration (src/app/config.py), followed  *)
(* by the computations under the settings that result.                     *)
(***************************************************************************)
\* Values general.cutoff_hour_local / CUTOFF_HOUR_LOCAL may carry: any
\* integer text passes _config_int.
ConfiguredHours == {-1, 0, 5, 23, 24}

\* Settings(): the dataclass fields take their values from the
\* configuration; there is no __post_init__.
SettingsConstruct(cutoff_hour_local) ==
  /\ result = Idle
  /\ settings' = [DefaultSettings EXCEPT !.cutoff_hour_local = cutoff_hour_local]
  /\ result' = [op |-> "Settings", cutoff_hour_local |-> cutoff_hour_local,
                raised |-> FALSE]
  /\ UNCHANGED <<feed_requests, engagements, resolver, mail>>

\* settings.with_overrides(cutoff_hour_local=...): dataclasses.replace
with_overrides(cutoff_hour_local) ==
  /\ result = Idle
  /\ settings' = [settings EXCEPT !.cutoff_hour_local = cutoff_hour_local]
  /\ result' = [op |-> "with_overrides", cutoff_hour_local |-> cutoff_hour_local,
                raised |-> FALSE]
  /\ UNCHANGED <<feed_requests, engagements, resolver, mail>>

LoadSettings == \E h \in ConfiguredHours : SettingsConstruct(h)
OverrideSettings == \E h \in ConfiguredHours : with_overrides(h)

InitConfig ==
  /\ resolver = ResolverIdle
  /\ feed_requests = FeedOfOthers
  /\ engagements = EngagementsOfOthers
  /\ settings = DefaultSettings
  /\ result = Idle
  /\ MailEmpty

NextConfig ==
  \/ LoadSettings
  \/ OverrideSettings
  \/ RecordFirstActivity
  \/ CallComputeWindowSummary
  \/ CallGetDailyEngagementBreakdown
  \/ Return

SpecConfig == InitConfig /\ [][NextConfig]_vars

(***************************************************************************)
(* mail.db (src/app/mail_db): the participants table, one row per DID      *)
(* (user_did is UNIQUE), a row's participant_id being its position, and    *)
(* the status history.  Of the columns of a participant the model keeps    *)
(* user_did, email and status; type, language, feed_url, prolific_id and   *)
(* study_type are written by the same rule as email.  The file is at the   *)
(* current schema, so apply_migrations changes nothing.                    *)
(***************************************************************************)
ALLOWED_STATUSES == {"active", "inactive", "unsubscribed"}
DEFAULT_STATUS == "active"

\* value.strip(), on the texts the model passes around
strip(value) ==
  CASE value = " Unsubscribed " -> "Unsubscribed"
    [] value = " manual hold " -> "manual hold"
    [] value = " did:b " -> "did:b"
    [] value = " inactive " -> "inactive"
    [] OTHER -> value

\* value.lower()
lower(value) ==
  CASE value = "Unsubscribed" -> "unsubscribed"
    [] OTHER -> value

_normalize_status(value) == lower(strip(value))

\* Size of the status history the model explores.
MaxHistory == 2

\* The position (participant_id) of the row of user_did, 0 when there is none.
participant_id_of(user_did) ==
  IF \E i \in DOMAIN participants : participants[i].user_did = user_did
    THEN CHOOSE i \in DOMAIN participants : participants[i].user_did = user_did
    ELSE 0

\* reason.strip() if reason else None
optional_text(value) ==
  IF value.some /\ value.value # "" THEN Some(strip(value.value)) ELSE None

\* StatusChangeResult
StatusChangeResult(user_did, old_status, new_status, reason, changed_by, changed) ==
  [user_did |-> user_did, old_status |-> old_status, new_status |-> new_status,
   reason |-> reason, changed_by |-> changed_by, changed |-> changed]

\* The outcome of set_participant_status: the exception raised ("" when
\* none), the StatusChangeResult returned and the two tables as the
\* transaction leaves them.
set_participant_status_unconditional(user_did, new_status, reason, changed_by) ==
  LET normalized_status == _normalize_status(new_status)
      participant_id == participant_id_of(user_did)
      unchanged == [participants |-> participants,
                    participant_status_history |-> participant_status_history]
  IN  IF normalized_status \notin ALLOWED_STATUSES
        THEN unchanged @@ [raised |-> "InvalidStatusError", ret |-> None]
      ELSE IF participant_id = 0
        THEN unchanged @@ [raised |-> "ParticipantNotFoundError", ret |-> None]
      ELSE
        LET old_status == participants[participant_id].status
        IN  [raised |-> "",
             ret |-> Some(StatusChangeResult(
                       user_did, old_status, normalized_status,
                       optional_text(reason), optional_text(changed_by), TRUE)),
             participants |->
               [participants EXCEPT ![participant_id].status = normalized_status],
             participant_status_history |->
               Append(participant_status_history,
                      [participant_id |-> participant_id,
                       old_status |-> old_status,
                       new_status |-> normalized_status,
                       reason |-> optional_text(reason),
                       changed_by |-> optional_text(changed_by)])]

set_participant_status(user_did, new_status, reason, changed_by) ==
  LET normalized_status == _normalize_status(new_status)
      participant_id == participant_id_of(user_did)
      unchanged == [participants |-> participants,
                    participant_status_history |-> participant_status_history]
  IN  IF normalized_status \notin ALLOWED_STATUSES
        THEN unchanged @@ [raised |-> "InvalidStatusError", ret |-> None]
      ELSE IF participant_id = 0
        THEN unchanged @@ [raised |-> "ParticipantNotFoundError", ret |-> None]
      ELSE
        LET old_status == participants[participant_id].status
        IN  IF old_status = normalized_status
              THEN unchanged @@
                   [raised |-> "",
                    ret |-> Some(StatusChangeResult(
                              user_did, old_status, normalized_status,
                              None, None, FALSE))]
            ELSE
              [raised |-> "",
               ret |-> Some(StatusChangeResult(
                         user_did, old_status, normalized_status,
                         optional_text(reason), optional_text(changed_by), TRUE)),
               participants |->
                 [participants EXCEPT ![participant_id].status = normalized_status],
               participant_status_history |->
                 Append(participant_status_history,
                        [participant_id |-> participant_id,
                         old_status |-> old_status,
                         new_status |-> normalized_status,
                         reason |-> optional_text(reason),
                         changed_by |-> optional_text(changed_by)])]

\* One call of set_participant_status(db_path, user_did=..., new_status=...,
\* reason=..., changed_by=...).
SetParticipantStatus(user_did, new_status, reason, changed_by) ==
  LET outcome == set_participant_status(user_did, new_status, reason, changed_by)
  IN  /\ result = Idle
      /\ Len(participant_status_history) < MaxHistory
      /\ participants' = outcome.participants
      /\ participant_status_history' = outcome.participant_status_history
      /\ result' = [op |-> "set_participant_status", user_did |-> user_did,
                    new_status |-> new_status, reason |-> reason,
                    changed_by |-> changed_by,
                    raised |-> outcome.raised, ret |-> outcome.ret]
      /\ UNCHANGED <<feed_requests, engagements, settings, resolver, outbox,
                     MailRest>>

\* The statuses, and the reason and author, the callers pass.
RawStatuses == {"active", "inactive", " Unsubscribed ", "paused"}
AuditTrails ==
  { [reason |-> None, changed_by |-> None],
    [reason |-> Some(" manual hold "), changed_by |-> Some("ops@example.com")] }

EmailOf(did) == IF did = "did:a" THEN "a@example.com" ELSE "b@example.com"

\* tests' _seed_participant: rows inserted directly into participants.
SeedRow(did, status) ==
  [user_did |-> did, email |-> EmailOf(did), status |-> status]
SeedTables ==
  {<<>>}
    \cup { <<SeedRow("did:a", a)>> : a \in ALLOWED_STATUSES }
    \cup { <<SeedRow("did:a", a), SeedRow("did:b", b)>> :
             a \in ALLOWED_STATUSES, b \in ALLOWED_STATUSES }

CallSetParticipantStatus ==
  \E user_did \in Roster, new_status \in RawStatuses, audit \in AuditTrails :
    SetParticipantStatus(user_did, new_status, audit.reason, audit.changed_by)

InitStatus ==
  /\ resolver = ResolverIdle
  /\ feed_requests = EmptyBag
  /\ engagements = EmptyBag
  /\ settings = DefaultSettings
  /\ result = Idle
  /\ participants \in SeedTables
  /\ participant_status_history = <<>>
  /\ outbox = <<>>
  /\ MailRestInit

NextStatus ==
  \/ CallSetParticipantStatus
  \/ Return

SpecStatus == InitStatus /\ [][NextStatus]_vars

\* RosterUpsertResult
RosterUpsertResult(inserted, updated, total) ==
  [inserted |-> inserted, updated |-> updated, total |-> total]

\* (record.get("status") or DEFAULT_STATUS).strip() or DEFAULT_STATUS
status_value_of(record) ==
  IF record.status = "" \/ strip(record.status) = ""
    THEN DEFAULT_STATUS ELSE strip(record.status)

\* The row of user_did in a table, None when there is none.
row_of(table, user_did) ==
  IF \E i \in DOMAIN table : table[i].user_did = user_did
    THEN Some(CHOOSE i \in DOMAIN table : table[i].user_did = user_did)
    ELSE None

\* The loop of upsert_participants over record_list.  existing_rows is the
\* table as read once before the loop; acc carries the table as written so
\* far, the two counters and the exception raised ("" when none).  An
\* insert of a user_did the table already holds violates UNIQUE(user_did).
RECURSIVE upsert_records(_, _, _)
upsert_records(record_list, existing_rows, acc) ==
  IF record_list = <<>> \/ acc.raised # ""
    THEN acc
  ELSE
    LET record == Head(record_list)
        user_did == strip(record.did)
        new_email == strip(record.email)
        existing == row_of(existing_rows, user_did)
        next ==
          IF user_did = "" THEN acc
          ELSE IF existing.some
            THEN IF new_email # "" /\ new_email # existing_rows[existing.value].email
                   THEN [acc EXCEPT
                           !.participants[existing.value].email = new_email,
                           !.updated = @ + 1]
                   ELSE acc
          ELSE IF new_email = "" THEN acc
          ELSE IF row_of(acc.participants, user_did).some
            THEN [acc EXCEPT !.raised = "IntegrityError"]
          ELSE [acc EXCEPT
                  !.participants =
                    Append(@, [user_did |-> user_did, email |-> new_email,
                               status |-> status_value_of(record)]),
                  !.inserted = @ + 1]
    IN  upsert_records(Tail(record_list), existing_rows, next)

\* The outcome of upsert_participants(db_path, records): the exception
\* raised, the RosterUpsertResult returned and the participants table as
\* the transaction leaves it (as it was when the transaction is rolled back).
upsert_participants(records) ==
  LET record_list == SelectSeq(records, LAMBDA record : record.did # "")
      done == upsert_records(record_list, participants,
                             [participants |-> participants, inserted |-> 0,
                              updated |-> 0, raised |-> ""])
  IN  IF record_list = <<>>
        THEN [raised |-> "", participants |-> participants,
              ret |-> Some(RosterUpsertResult(0, 0, Len(participants)))]
      ELSE IF done.raised # ""
        THEN [raised |-> done.raised, participants |-> participants, ret |-> None]
      ELSE [raised |-> "", participants |-> done.participants,
            ret |-> Some(RosterUpsertResult(done.inserted, done.updated,
                                            Len(done.participants)))]

\* The records the importers hand over: the did, email and status columns
\* as read, blank or padded with spaces included.
RecordDIDs == {"", "did:a", " did:b "}
RecordEmails == {"", "a@example.com", "b@example.com"}
RecordStatuses == {"", "active", " inactive "}
Records ==
  { [did |-> did, email |-> email, status |-> status] :
      did \in RecordDIDs, email \in RecordEmails, status \in RecordStatuses }
RecordLists ==
  { <<record>> : record \in Records }
    \cup { <<first, second>> : first \in Records, second \in Records }

\* One call of upsert_participants(db_path, records).
UpsertParticipantsOf(records) ==
  LET outcome == upsert_participants(records)
  IN  /\ result = Idle
      /\ participants' = outcome.participants
      /\ result' = [op |-> "upsert_participants", records |-> records,
                    raised |-> outcome.raised, ret |-> outcome.ret]
      /\ UNCHANGED <<feed_requests, engagements, settings, resolver,
                     participant_status_history, outbox, MailRest>>

UpsertParticipants ==
  \E records \in RecordLists : UpsertParticipantsOf(records)

\* A manual override of a participant's status (participant set-status),
\* once per run.
ManualOverride ==
  /\ participant_status_history = <<>>
  /\ \E user_did \in Roster, new_status \in {"inactive", " Unsubscribed "} :
       SetParticipantStatus(user_did, new_status,
                            Some(" manual hold "), Some("ops@example.com"))

InitUpsert ==
  /\ resolver = ResolverIdle
  /\ feed_requests = EmptyBag
  /\ engagements = EmptyBag
  /\ settings = DefaultSettings
  /\ result = Idle
  /\ MailEmpty

NextUpsert ==
  \/ UpsertParticipants
  \/ ManualOverride
  \/ Return

SpecUpsert == InitUpsert /\ [][NextUpsert]_vars

(***************************************************************************)
(* send-daily (cli.send_daily_command): the roster is loaded from mail.db, *)
(* filtered, the summaries are computed, and the loop over the active      *)
(* participants hands the messages to MailSender.send.  outbox holds the   *)
(* calls of send made on the sender of the run.  There is no participants  *)
(* CSV to fall back on.                                                    *)
(***************************************************************************)
\* The sort key of list_participants: (email, did), as ranks.
EmailRank(email) ==
  CASE email = "" -> 0
    [] email = "a@example.com" -> 1
    [] OTHER -> 2
DidRank(did) ==
  CASE did = "did:a" -> 1
    [] OTHER -> 2
RosterBefore(x, y) ==
  \/ EmailRank(x.email) < EmailRank(y.email)
  \/ EmailRank(x.email) = EmailRank(y.email) /\ DidRank(x.did) <= DidRank(y.did)

\* list_participants(db_path): the rows as dictionaries, sorted.
list_participants ==
  LET rows == [i \in DOMAIN participants |->
                 [did |-> participants[i].user_did,
                  email |-> participants[i].email,
                  status |-> participants[i].status]]
  IN  IF rows = <<>> THEN <<>>
      ELSE CHOOSE roster \in [DOMAIN rows -> Range(rows)] :
             /\ \A i \in DOMAIN rows : \E j \in DOMAIN rows : roster[j] = rows[i]
             /\ \A i, j \in DOMAIN rows : i < j => RosterBefore(roster[i], roster[j])

\* Participant
Participant(user_did, email, include_in_emails) ==
  [user_did |-> user_did, email |-> email,
   include_in_emails |-> include_in_emails]

\* load_participants(csv_path, mail_db_path=...), up to the return of the
\* roster read from mail.db; <<>> when it goes on to the CSV.
load_participants ==
  LET db_participants ==
        SelectSeq(list_participants,
                  LAMBDA row : strip(row.did) # "" /\ strip(row.email) # "")
  IN  [i \in DOMAIN db_participants |->
         LET row == db_participants[i]
             status == _normalize_status(
                         IF row.status = "" THEN "active" ELSE row.status)
         IN  Participant(strip(row.did), strip(row.email), status = "active")]

filter_active_all(roster) == roster

filter_active(roster) ==
  SelectSeq(roster, LAMBDA p : p.include_in_emails)

\* _summaries_for_participants(settings, participants), as the loop of
\* SummariesStep leaves it.
_summaries_for_participants(roster, s, now) ==
  [did \in { p.user_did : p \in { q \in Range(roster) :
                compute_window_summary(q.user_did, s, now).some } } |->
     compute_window_summary(did, s, now).value]

\* send-daily up to the loop: sender = MailSender(settings), the roster,
\* active_participants, summaries and the early return.
StartSendDaily ==
  \E now \in NowTimes :
    /\ result = Idle
    /\ outbox' = <<>>
    /\ LET roster == load_participants
           active_participants == filter_active(roster)
           summaries == _summaries_for_participants(active_participants,
                                                    settings, now)
       IN  result' =
             IF roster = <<>>
               THEN [op |-> "send_daily", now |-> now,
                     raised |-> "ClickException", pc |-> "done",
                     active_participants |-> <<>>,
                     summaries |-> [did \in {} |-> None], index |-> 0]
             ELSE [op |-> "send_daily", now |-> now, raised |-> "",
                   pc |-> IF DOMAIN summaries = {} THEN "done" ELSE "loop",
                   active_participants |-> active_participants,
                   summaries |-> summaries, index |-> 0]
    /\ UNCHANGED <<feed_requests, engagements, settings, resolver,
                   participants, participant_status_history, MailRest>>

\* One turn of the loop over active_participants: skip without a summary,
\* else render and sender.send(rendered, participant.email, ...).
SendDailyStep ==
  /\ result.op = "send_daily"
  /\ result.pc = "loop"
  /\ LET participant == result.active_participants[result.index + 1]
     IN  /\ outbox' =
              IF participant.user_did \in DOMAIN result.summaries
                THEN Append(outbox,
                            [recipient |-> participant.email,
                             user_did |-> participant.user_did,
                             message_type |-> "daily_update",
                             template_version |-> "daily_progress_v1"])
                ELSE outbox
         /\ result' = [result EXCEPT
               !.index = result.index + 1,
               !.pc = IF result.index + 1 = Len(result.active_participants)
                        THEN "done" ELSE "loop"]
  /\ UNCHANGED <<feed_requests, engagements, settings, resolver,
                 participants, participant_status_history, MailRest>>

\* Activity of the members of the roster is recorded between the runs.
RecordRosterActivity ==
  /\ result = Idle
  /\ \/ RecordFirstActivity
     \/ RecordOtherActivity

\* The settings of the runs: the tests' UTC profile.
SendSettings ==
  { s \in SettingsSet :
      s.tz.name = "UTC" /\ s.required_active_days = 1 }

InitSend ==
  /\ resolver = ResolverIdle
  /\ feed_requests = EmptyBag
  /\ engagements = EmptyBag
  /\ settings \in SendSettings
  /\ result = Idle
  /\ participants \in SeedTables
  /\ participant_status_history = <<>>
  /\ outbox = <<>>
  /\ MailRestInit

NextSend ==
  \/ RecordRosterActivity
  \/ ManualOverride
  \/ StartSendDaily
  \/ SendDailyStep
  \/ Return

SpecSend == InitSend /\ [][NextSend]_vars

(***************************************************************************)
(* MailSender.send (src/app/mailer.py) and the send_attempts table.  A row *)
(* of send_attempts is a record; its attempt_id is its position.  The      *)
(* writing of the .eml file and the SMTP delivery either succeed or raise. *)
(***************************************************************************)
\* Largest number of rows of send_attempts before a further send.
MaxAttempts == 2

\* created_at (CURRENT_TIMESTAMP, to the second) of a new row: the second of
\* the latest row or the next one.
LastCreatedAt ==
  IF send_attempts = <<>> THEN 0
  ELSE send_attempts[Len(send_attempts)].created_at
CreationTimes == {LastCreatedAt, LastCreatedAt + 1}

\* SendAttemptRecord
SendAttemptRecord(attempt_id, participant_id, status) ==
  [attempt_id |-> attempt_id, participant_id |-> participant_id,
   status |-> status]

\* record_send_attempt(db_path, user_did=..., message_type=..., mode=...,
\* status=..., template_version=...): the exception raised, the record
\* returned and the table as the transaction leaves it.
record_send_attempt(user_did, message_type, mode, status, template_version, created_at) ==
  LET participant_id == participant_id_of(user_did)
  IN  IF participant_id = 0
        THEN [raised |-> "ParticipantNotFoundError", ret |-> None,
              send_attempts |-> send_attempts]
      ELSE [raised |-> "",
            ret |-> Some(SendAttemptRecord(Len(send_attempts) + 1,
                                           participant_id, status)),
            send_attempts |->
              Append(send_attempts,
                     [participant_id |-> participant_id,
                      message_type |-> message_type, mode |-> mode,
                      status |-> status, smtp_response |-> None,
                      template_version |-> template_version,
                      created_at |-> created_at])]

\* update_send_attempt(db_path, attempt_id=..., status=..., smtp_response=...)
update_send_attempt(table, attempt_id, status, smtp_response) ==
  [table EXCEPT ![attempt_id].status = status,
                ![attempt_id].smtp_response = smtp_response]

\* _finalise(status, smtp_response) of send: the table after it.
_finalise(attempt_id, status, smtp_response) ==
  IF attempt_id.some
    THEN update_send_attempt(send_attempts, attempt_id.value, status, smtp_response)
    ELSE send_attempts

\* send, up to the attempt recorded as queued (ParticipantNotFoundError is
\* swallowed and leaves attempt_id None).
SendRecord ==
  \E user_did \in Roster, dry_run \in BOOLEAN, created_at \in CreationTimes :
    LET mode == IF dry_run THEN "dry-run" ELSE "live"
        attempt == record_send_attempt(user_did, "daily_update", mode,
                                       "queued", Some("daily_progress_v1"),
                                       created_at)
    IN  /\ result = Idle
        /\ Len(send_attempts) < MaxAttempts
        /\ send_attempts' = attempt.send_attempts
        /\ result' = [op |-> "send", user_did |-> user_did, mode |-> mode,
                      attempt_id |-> IF attempt.ret.some
                                       THEN Some(attempt.ret.value.attempt_id)
                                       ELSE None,
                      attempts_before |-> Len(send_attempts),
                      pc |-> "recorded"]
        /\ UNCHANGED <<feed_requests, engagements, settings, resolver,
                       participants, participant_status_history, outbox,
                       schema_version, mailbox, sessions>>

\* send, from the attempt recorded to its end: the dry run writes the .eml
\* file and finalises; the live run delivers and finalises as sent, or as
\* failed when the delivery raises, and re-raises.
SendFinish ==
  \E succeeds \in BOOLEAN :
    /\ result.op = "send"
    /\ result.pc = "recorded"
    /\ send_attempts' =
         IF result.mode = "dry-run"
           THEN IF succeeds
                  THEN _finalise(result.attempt_id, "sent", Some("dry-run:eml_path"))
                  ELSE send_attempts
         ELSE IF succeeds
           THEN _finalise(result.attempt_id, "sent", Some("OK"))
         ELSE _finalise(result.attempt_id, "failed", Some("str(exc)"))
    /\ result' = [result EXCEPT !.pc = IF succeeds THEN "returned" ELSE "raised"]
    /\ UNCHANGED <<feed_requests, engagements, settings, resolver,
                   participants, participant_status_history, outbox,
                   schema_version, mailbox, sessions>>

\* The caller goes on after send returned or raised.
SendReturn ==
  /\ result.op = "send"
  /\ result.pc # "recorded"
  /\ Return

\* The rosters the mailer meets: empty, one active participant, and an
\* active and an inactive one.
MailerTables ==
  { <<>>,
    <<SeedRow("did:a", "active")>>,
    <<SeedRow("did:a", "active"), SeedRow("did:b", "inactive")>> }

InitMailer ==
  /\ resolver = ResolverIdle
  /\ feed_requests = EmptyBag
  /\ engagements = EmptyBag
  /\ settings = DefaultSettings
  /\ result = Idle
  /\ participants \in MailerTables
  /\ participant_status_history = <<>>
  /\ outbox = <<>>
  /\ MailRestInit

NextMailer ==
  \/ SendRecord
  \/ SendFinish
  \/ SendReturn

SpecMailer == InitMailer /\ [][NextMailer]_vars

(***************************************************************************)
(* mark_send_attempt_bounced: the latest send attempt of the participant   *)
(* becomes failed, then the participant is set to inactive through         *)
(* set_participant_status.                                                 *)
(***************************************************************************)
\* The attempt_id of the first row of the participant, 0 when there is none.
latest_attempt_id_oldest(participant_id) ==
  LET own == { i \in DOMAIN send_attempts :
                 send_attempts[i].participant_id = participant_id }
  IN  IF own = {} THEN 0
      ELSE CHOOSE i \in own : \A j \in own : i <= j

\* select(attempt_id).where(participant_id == ...).order_by(created_at.desc(),
\* attempt_id.desc()).limit(1): 0 when the participant has no attempt.
latest_attempt_id(participant_id) ==
  LET own == { i \in DOMAIN send_attempts :
                 send_attempts[i].participant_id = participant_id }
  IN  IF own = {} THEN 0
      ELSE CHOOSE i \in own :
             \A j \in own :
               \/ send_attempts[j].created_at < send_attempts[i].created_at
               \/ /\ send_attempts[j].created_at = send_attempts[i].created_at
                  /\ j <= i

\* value or default, for an optional text
text_or(value, default) ==
  IF value.some /\ value.value # "" THEN value.value ELSE default

\* The outcome of mark_send_attempt_bounced(db_path, user_did=..., reason=...,
\* changed_by=...): the exception raised and the three tables after it.
mark_send_attempt_bounced(user_did, reason, changed_by) ==
  LET participant_id == participant_id_of(user_did)
      attempt_id == latest_attempt_id(participant_id)
      status_change == set_participant_status(
                         user_did, "inactive",
                         Some(text_or(reason, "hard bounce")),
                         Some(text_or(changed_by, "bounce-handler")))
  IN  IF participant_id = 0
        THEN [raised |-> "ParticipantNotFoundError",
              send_attempts |-> send_attempts,
              participants |-> participants,
              participant_status_history |-> participant_status_history]
      ELSE [raised |-> IF attempt_id = 0 THEN "SendAttemptNotFoundError" ELSE "",
            send_attempts |->
              IF attempt_id = 0 THEN send_attempts
              ELSE update_send_attempt(send_attempts, attempt_id, "failed",
                                       Some(text_or(reason, "bounced"))),
            participants |-> status_change.participants,
            participant_status_history |->
              status_change.participant_status_history]

\* The reasons and authors the callers give.
BounceReasons == {None, Some("550 mailbox unavailable")}
BounceAuthors == {None, Some("bounce-bot")}

\* One call of mark_send_attempt_bounced.
MarkSendAttemptBounced ==
  \E user_did \in Roster, reason \in BounceReasons, changed_by \in BounceAuthors :
    LET outcome == mark_send_attempt_bounced(user_did, reason, changed_by)
    IN  /\ result = Idle
        /\ send_attempts' = outcome.send_attempts
        /\ participants' = outcome.participants
        /\ participant_status_history' = outcome.participant_status_history
        /\ result' = [op |-> "mark_send_attempt_bounced", user_did |-> user_did,
                      reason |-> reason, changed_by |-> changed_by,
                      raised |-> outcome.raised]
        /\ UNCHANGED <<feed_requests, engagements, settings, resolver, outbox,
                       schema_version, mailbox, sessions>>

\* A delivered message is on record: record_send_attempt(db_path,
\* user_did=..., message_type="daily_update", mode="live", status="sent").
RecordSentAttempt ==
  \E user_did \in Roster, created_at \in CreationTimes :
    LET attempt == record_send_attempt(user_did, "daily_update", "live",
                                       "sent", None, created_at)
    IN  /\ result = Idle
        /\ Len(send_attempts) < MaxAttempts
        /\ attempt.raised = ""
        /\ send_attempts' = attempt.send_attempts
        /\ UNCHANGED <<feed_requests, engagements, settings, resolver, result,
                       participants, participant_status_history, outbox,
                       schema_version, mailbox, sessions>>

NextBounce ==
  \/ RecordSentAttempt
  \/ MarkSendAttemptBounced
  \/ Return

SpecBounce == InitMailer /\ [][NextBounce]_vars

(***************************************************************************)
(* apply_migrations (src/app/mail_db/migrations.py) on a mail.db whose     *)
(* metadata table records schema_version (0: a new file).                  *)
(***************************************************************************)
\* MIGRATIONS: the versions a migration is registered for.
MIGRATIONS == {1, 2}

\* The loop for version in range(current_version + 1, SCHEMA_VERSION + 1):
\* the migrations applied so far and the exception raised ("" when none).
RECURSIVE migrate_from(_, _)
migrate_from(version, applied) ==
  IF version > SCHEMA_VERSION
    THEN [raised |-> "", applied |-> applied]
  ELSE IF version \notin MIGRATIONS
    THEN [raised |-> "RuntimeError", applied |-> applied]
  ELSE migrate_from(version + 1, Append(applied, version))

\* The outcome of apply_migrations(db_path): the exception raised, the
\* migrations applied, the value returned and the version the metadata
\* table records once the transaction is committed or rolled back.
apply_migrations ==
  LET current_version == schema_version
      loop == migrate_from(current_version + 1, <<>>)
  IN  IF current_version > SCHEMA_VERSION
        THEN [raised |-> "RuntimeError", applied |-> <<>>, ret |-> None,
              schema_version |-> schema_version]
      ELSE IF loop.raised # ""
        THEN [raised |-> loop.raised, applied |-> loop.applied, ret |-> None,
              schema_version |-> schema_version]
      ELSE [raised |-> "", applied |-> loop.applied,
            ret |-> Some(SCHEMA_VERSION),
            schema_version |->
              IF loop.applied = <<>> THEN schema_version
              ELSE loop.applied[Len(loop.applied)]]

\* One call of apply_migrations.
ApplyMigrations ==
  LET outcome == apply_migrations
  IN  /\ result = Idle
      /\ schema_version' = outcome.schema_version
      /\ result' = [op |-> "apply_migrations", before |-> schema_version,
                    raised |-> outcome.raised, applied |-> outcome.applied,
                    ret |-> outcome.ret]
      /\ UNCHANGED <<feed_requests, engagements, settings, resolver,
                     participants, participant_status_history, outbox,
                     send_attempts, mailbox, sessions>>

\* The versions a mail.db file may record: new, written by an earlier
\* release, current, and written by a later release.
RecordedVersions == 0..(SCHEMA_VERSION + 1)

InitMigrate ==
  /\ resolver = ResolverIdle
  /\ feed_requests = EmptyBag
  /\ engagements = EmptyBag
  /\ settings = DefaultSettings
  /\ result = Idle
  /\ schema_version \in RecordedVersions
  /\ participants \in (IF schema_version = 0 THEN {<<>>} ELSE SeedTables)
  /\ participant_status_history = <<>>
  /\ outbox = <<>>
  /\ send_attempts = <<>>
  /\ mailbox = <<>>
  /\ sessions = NoSessions

NextMigrate ==
  \/ ApplyMigrations
  \/ Return

SpecMigrate == InitMigrate /\ [][NextMigrate]_vars

(***************************************************************************)
(* The window computation under settings whose required_active_days goes   *)
(* up to the longest window, so that a day can fall off track before the   *)
(* last day of the sequence.                                               *)
(***************************************************************************)
TrackSettings ==
  { [tz |-> Zone("UTC"), window_days |-> w, required_active_days |-> r,
     cutoff_hour_local |-> 0, min_retrievals |-> 1, min_engagement |-> 3] :
      w \in 1..MaxWindow, r \in 1..MaxWindow }

InitTrack ==
  /\ resolver = ResolverIdle
  /\ feed_requests = FeedOfOthers
  /\ engagements = EngagementsOfOthers
  /\ settings \in TrackSettings
  /\ result = Idle
  /\ MailEmpty

SpecTrack == InitTrack /\ [][NextWindow]_vars

(***************************************************************************)
(* The roster over its life: rows imported from participants.csv           *)
(* (participant import-csv), statuses set by hand and bounces.             *)
(***************************************************************************)
\* The status column of participants.csv as import-csv passes it on:
\* (raw.get("status") or "active").strip(), whatever the text.
ImportedStatuses == {"active", "inactive", "paused"}

\* The rows import-csv builds from the file, one participant per file.
ImportedLists ==
  { << [did |-> did, email |-> EmailOf(did), status |-> status] >> :
      did \in Roster, status \in ImportedStatuses }

\* participant import-csv: upsert_participants(settings.mail_db_path, rows)
ImportParticipants ==
  \E rows \in ImportedLists : UpsertParticipantsOf(rows)

\* The first message delivered to a participant of the roster.
FirstDelivery ==
  /\ send_attempts = <<>>
  /\ RecordSentAttempt

NextRoster ==
  \/ ImportParticipants
  \/ ManualOverride
  \/ FirstDelivery
  \/ MarkSendAttemptBounced
  \/ Return

SpecRoster == InitUpsert /\ [][NextRoster]_vars

(***************************************************************************)
(* set_participant_status run by concurrent processes on one mail.db.      *)
(* The engine is create_engine("sqlite:///...") with the driver's default  *)
(* transaction handling: the SELECT of the old status takes no write lock, *)
(* so another process may commit between a process's SELECT and its        *)
(* UPDATE and INSERT.  sessions[p] is the position of process p.           *)
(***************************************************************************)
Procs == {"p1", "p2"}

SessionIdle == [pc |-> "idle"]

\* the calls that have read the old status and not written yet
Selected == { p \in Procs : sessions[p].pc = "selected" }

\* set_participant_status up to and including the SELECT of the row: the
\* call goes on to write only for a supported status, a known participant
\* and a status that differs from the one read.
SelectStatus(p, user_did, new_status, reason, changed_by) ==
  LET normalized_status == _normalize_status(new_status)
      participant_id == participant_id_of(user_did)
  IN  /\ sessions[p] = SessionIdle
      /\ Len(participant_status_history) + Cardinality(Selected) < MaxHistory
      /\ normalized_status \in ALLOWED_STATUSES
      /\ participant_id # 0
      /\ participants[participant_id].status # normalized_status
      /\ sessions' = [sessions EXCEPT ![p] =
                        [pc |-> "selected",
                         participant_id |-> participant_id,
                         old_status |-> participants[participant_id].status,
                         new_status |-> normalized_status,
                         reason |-> optional_text(reason),
                         changed_by |-> optional_text(changed_by)]]

\* A process calls set_participant_status.
SelectForSetStatus ==
  \E p \in Procs, user_did \in Roster, new_status \in ALLOWED_STATUSES :
    /\ SelectStatus(p, user_did, new_status, None, Some("ops@example.com"))
    /\ UNCHANGED <<feed_requests, engagements, settings, resolver, result,
                   participants, participant_status_history, outbox,
                   send_attempts, schema_version, mailbox>>

\* A process calls mark_send_attempt_bounced: its first transaction marks
\* the latest attempt failed, then set_participant_status(new_status=
\* "inactive") reads the row.
SelectForBounce ==
  \E p \in Procs, user_did \in Roster :
    LET attempt_id == latest_attempt_id(participant_id_of(user_did))
    IN  /\ SelectStatus(p, user_did, "inactive",
                        Some("hard bounce"), Some("bounce-handler"))
        /\ send_attempts' =
             IF attempt_id = 0 THEN send_attempts
             ELSE update_send_attempt(send_attempts, attempt_id, "failed",
                                      Some("bounced"))
        /\ UNCHANGED <<feed_requests, engagements, settings, resolver, result,
                       participants, participant_status_history, outbox,
                       schema_version, mailbox>>

\* The UPDATE of the row and the INSERT of the history row, committed
\* together, with the old status the process read.
WriteStatus ==
  \E p \in Selected :
    LET call == sessions[p]
    IN  /\ participants' =
             [participants EXCEPT ![call.participant_id].status = call.new_status]
        /\ participant_status_history' =
             Append(participant_status_history,
                    [participant_id |-> call.participant_id,
                     old_status |-> call.old_status,
                     new_status |-> call.new_status,
                     reason |-> call.reason,
                     changed_by |-> call.changed_by])
        /\ sessions' = [sessions EXCEPT ![p] = SessionIdle]
        /\ UNCHANGED <<feed_requests, engagements, settings, resolver, result,
                       outbox, send_attempts, schema_version, mailbox>>

InitAudit ==
  /\ resolver = ResolverIdle
  /\ feed_requests = EmptyBag
  /\ engagements = EmptyBag
  /\ settings = DefaultSettings
  /\ result = Idle
  /\ participants \in MailerTables
  /\ participant_status_history = <<>>
  /\ outbox = <<>>
  /\ send_attempts = <<>>
  /\ schema_version = SCHEMA_VERSION
  /\ mailbox = <<>>
  /\ sessions = [p \in Procs |-> SessionIdle]

NextAudit ==
  \/ FirstDelivery
  \/ SelectForSetStatus
  \/ SelectForBounce
  \/ WriteStatus

SpecAudit == InitAudit /\ [][NextAudit]_vars

(***************************************************************************)
(* scan_bounces (src/app/bounce_scanner.py) over the IMAP bounce mailbox.  *)
(* mailbox is the sequence of messages on the server; a message is its     *)
(* \Seen flag, whether FETCH answers OK with a payload, and the recipients *)
(* _extract_recipients finds in it (lower case, each once).  A scan in     *)
(* progress keeps its position in result.                                  *)
(***************************************************************************)
\* Size of the mailbox the model explores.
MaxMessages == 2

\* what _extract_recipients returns for the messages explored
RecipientLists ==
  { <<>>, <<"a@example.com">>, <<"unknown@example.com">>,
    <<"b@example.com", "a@example.com">> }

Messages ==
  { [seen |-> FALSE, fetch_ok |-> ok, recipients |-> recipients] :
      ok \in BOOLEAN, recipients \in RecipientLists }

Mailboxes == UNION { [1..n -> Messages] : n \in 0..MaxMessages }

\* find_participant_by_email: the user_did of the first row whose email
\* equals the address, both in lower case; "" when there is none.
find_participant_by_email(email) ==
  LET normalized == lower(strip(email))
      found == { i \in DOMAIN participants :
                   lower(participants[i].email) = normalized }
  IN  IF found = {} THEN ""
      ELSE participants[CHOOSE i \in found : \A j \in found : i <= j].user_did

\* f"bounced for {recipient}"
bounced_for(recipient) ==
  CASE recipient = "a@example.com" -> "bounced for a@example.com"
    [] recipient = "b@example.com" -> "bounced for b@example.com"
    [] OTHER -> "bounced for unknown@example.com"

\* connection.search(None, "UNSEEN"): the ids of the messages without \Seen
RECURSIVE unseen_from(_)
unseen_from(i) ==
  IF i > Len(mailbox) THEN <<>>
  ELSE IF mailbox[i].seen THEN unseen_from(i + 1)
  ELSE <<i>> \o unseen_from(i + 1)

unseen_ids == unseen_from(1)

\* scan_bounces(settings) is called with mark_seen at its default True:
\* login, select and search succeed, the loop starts with the unseen ids.
ScanStart ==
  /\ result = Idle
  /\ result' = [op |-> "scan_bounces", pc |-> "loop", raised |-> "",
                ids |-> unseen_ids, current |-> 0, recipients |-> <<>>,
                fetched |-> {}, messages_seen |-> 0,
                participants_updated |-> <<>>, unmatched_recipients |-> <<>>]
  /\ UNCHANGED <<feed_requests, engagements, settings, resolver, mail>>

Scanning == result.op = "scan_bounces" /\ result.pc = "loop"

\* The head of the loop for the next id: connection.fetch(msg_id, "(RFC822)").
\* A fetch that is not OK or has no payload skips the message; so does a
\* message without recipients.  Whether the server sets \Seen on a message
\* it hands out is the server's choice (the tests' FakeIMAP does not).
ScanFetch ==
  /\ Scanning
  /\ result.current = 0
  /\ result.ids # <<>>
  /\ LET msg_id == Head(result.ids)
         message == mailbox[msg_id]
     IN  IF ~message.fetch_ok
           THEN /\ result' = [result EXCEPT !.ids = Tail(@)]
                /\ UNCHANGED mailbox
         ELSE
           /\ \E implicit \in BOOLEAN :
                mailbox' = [mailbox EXCEPT ![msg_id].seen = @ \/ implicit]
           /\ result' =
                IF message.recipients = <<>>
                  THEN [result EXCEPT !.ids = Tail(@),
                                      !.fetched = @ \cup {msg_id},
                                      !.messages_seen = @ + 1]
                ELSE [result EXCEPT !.current = msg_id,
                                    !.recipients = message.recipients,
                                    !.fetched = @ \cup {msg_id},
                                    !.messages_seen = @ + 1]
  /\ UNCHANGED <<feed_requests, engagements, settings, resolver,
                 participants, participant_status_history, outbox,
                 send_attempts, schema_version, sessions>>

\* The body of the inner loop for one recipient: no participant with that
\* address gives an unmatched recipient; otherwise mark_send_attempt_bounced
\* runs, and only its ParticipantNotFoundError is caught.
ScanRecipient ==
  /\ Scanning
  /\ result.current # 0
  /\ result.recipients # <<>>
  /\ LET recipient == Head(result.recipients)
         user_did == find_participant_by_email(recipient)
         outcome == mark_send_attempt_bounced(
                      user_did, Some(bounced_for(recipient)),
                      Some("bounce-scanner"))
     IN  IF user_did = ""
           THEN /\ result' = [result EXCEPT
                                !.recipients = Tail(@),
                                !.unmatched_recipients = Append(@, recipient)]
                /\ UNCHANGED <<participants, participant_status_history,
                               send_attempts>>
         ELSE
           /\ participants' = outcome.participants
           /\ participant_status_history' = outcome.participant_status_history
           /\ send_attempts' = outcome.send_attempts
           /\ result' =
                IF outcome.raised = ""
                  THEN [result EXCEPT
                          !.recipients = Tail(@),
                          !.participants_updated = Append(@, user_did)]
                ELSE IF outcome.raised = "ParticipantNotFoundError"
                  THEN [result EXCEPT
                          !.recipients = Tail(@),
                          !.unmatched_recipients = Append(@, recipient)]
                ELSE [result EXCEPT !.pc = "raised", !.raised = outcome.raised]
  /\ UNCHANGED <<feed_requests, engagements, settings, resolver, outbox,
                 schema_version, mailbox, sessions>>

\* After the last recipient: connection.store(msg_id, "+FLAGS", "(\\Seen)").
ScanStore ==
  /\ Scanning
  /\ result.current # 0
  /\ result.recipients = <<>>
  /\ mailbox' = [mailbox EXCEPT ![result.current].seen = TRUE]
  /\ result' = [result EXCEPT !.current = 0, !.ids = Tail(@)]
  /\ UNCHANGED <<feed_requests, engagements, settings, resolver,
                 participants, participant_status_history, outbox,
                 send_attempts, schema_version, sessions>>

\* The loop is over: the connection is closed and the BounceOutcome returned.
ScanReturn ==
  /\ Scanning
  /\ result.current = 0
  /\ result.ids = <<>>
  /\ result' = [result EXCEPT !.pc = "returned"]
  /\ UNCHANGED <<feed_requests, engagements, settings, resolver, mail>>

InitScan ==
  /\ resolver = ResolverIdle
  /\ feed_requests = EmptyBag
  /\ engagements = EmptyBag
  /\ settings = DefaultSettings
  /\ result = Idle
  /\ participants \in MailerTables
  /\ participant_status_history = <<>>
  /\ outbox = <<>>
  /\ send_attempts = <<>>
  /\ schema_version = SCHEMA_VERSION
  /\ mailbox \in Mailboxes
  /\ sessions = NoSessions

NextScan ==
  \/ FirstDelivery
  \/ ScanStart
  \/ ScanFetch
  \/ ScanRecipient
  \/ ScanStore
  \/ ScanReturn
  \/ Return

SpecScan == InitScan /\ [][NextScan]_vars

(***************************************************************************)
(* Properties of the boundary resolver (checked under SpecDay).            *)
(***************************************************************************)
\* The local wall clock of the resolver's instant, its local date and its
\* local clock time, stated without division.
LocalClock == resolver.dt + resolver.tz.utcoffset
LocalDate ==
  CHOOSE L \in -1..(MaxDay + 1) :
    L * MinutesPerDay <= LocalClock /\ LocalClock < (L + 1) * MinutesPerDay
LocalTime == LocalClock - LocalDate * MinutesPerDay

DayKnown == resolver.pc \in {"day", "start", "done"}
StartKnown == resolver.pc \in {"start", "done"}

\* C2: study_day_for is exact at the cutoff boundary: with L the local date
\* of the instant, the study day is L - 1 when the local clock time is
\* strictly before cutoff_hour:00 and L when it is at or after it.
StudyDayExactAtCutoff ==
  DayKnown =>
    /\ (LocalTime < resolver.cutoff_hour * MinutesPerHour
          => resolver.day = LocalDate - 1)
    /\ (LocalTime >= resolver.cutoff_hour * MinutesPerHour
          => resolver.day = LocalDate)

\* C2 witness: an instant exactly at cutoff_hour:00 local time, in a zone
\* with an offset and with a cutoff that is not midnight, mapped to L.
StudyDayAtCutoffInstant ==
  /\ resolver.pc = "day"
  /\ resolver.tz.name = "Europe/Amsterdam"
  /\ resolver.cutoff_hour = 5
  /\ LocalTime = resolver.cutoff_hour * MinutesPerHour
  /\ resolver.day = LocalDate

\* C3: study_day_start(d) is the first instant of study day d: every
\* instant whose study day is d lies in the half-open range
\* [study_day_start(d), study_day_start(d + 1)).
StudyDayStartIsFirstInstant ==
  StartKnown =>
    /\ resolver.start <= resolver.dt
    /\ resolver.dt < resolver.next_start

\* C4: round trip of the boundary map,
\* study_day_for(study_day_start(study_day_for(t))) = study_day_for(t).
RoundTripIsIdentity ==
  resolver.pc = "done" => resolver.day2 = resolver.day

(***************************************************************************)
(* Properties of compute_window_summary (checked under SpecWindow).        *)
(***************************************************************************)
Called == result.op = "compute_window_summary"
Returned == Called /\ result.ret.some
summary == result.ret.value
snaps == summary.snapshots
last == snaps[Len(snaps)]

\* The snapshot sequence the last call produced, by either entry point.
Listed == result.op = "get_daily_engagement_breakdown" /\ ~result.ret.raised
Produced == Returned \/ Listed
produced == IF Returned THEN snaps ELSE result.ret.snapshots

RetrievalsOf(did) == {r \in DOMAIN feed_requests : r.requester_did = did}
EngagementsOf(did) == {r \in DOMAIN engagements : r.did_engagement = did}

\* study_day_for under the settings of the call
StudyDayOf(ts) == _study_day_for_utc(ts, settings.tz, settings.cutoff_hour_local)

\* C1: a participant without any retrieval event gets no summary, whatever
\* engagement events exist.
NoRetrievalNoSummary ==
  (Called /\ RetrievalsOf(result.user_did) = {}) => ~result.ret.some

\* C1 witness: the call returned nothing for a participant who has
\* engagement events but no retrieval.
NoSummaryDespiteEngagements ==
  /\ Called
  /\ RetrievalsOf(result.user_did) = {}
  /\ EngagementsOf(result.user_did) # {}
  /\ ~result.ret.some

\* C5: in every snapshot produced by either entry point, active_day is true
\* iff retrievals >= min_retrievals and engagements >= min_engagement of the
\* study settings of the call.
ActiveDayUsesSettingsThresholds ==
  Produced =>
    \A i \in DOMAIN produced :
      produced[i].active_day <=>
        /\ produced[i].retrievals >= settings.min_retrievals
        /\ produced[i].engagements >= settings.min_engagement

\* C6: on every day of the sequence, at 1-based position i,
\* on_track = (cumulative_active + max(window_days - i, 0)
\*             + (1 if the day is not active) >= required_active_days).
OnTrackProjection ==
  Produced =>
    \A i \in DOMAIN produced :
      LET remaining == IF settings.window_days > i THEN settings.window_days - i ELSE 0
          bonus == IF produced[i].active_day THEN 0 ELSE 1
      IN  produced[i].on_track <=>
            (produced[i].cumulative_active + remaining + bonus
               >= settings.required_active_days)

\* C6 witness: a sequence longer than window_days with a historical inactive
\* day inside the window that is on track only through the 1 added for an
\* inactive day, and a day past window_days (remaining = 0) that is not on
\* track.
HistoricalDayOnTrackByBonus ==
  /\ Listed
  /\ Len(produced) > settings.window_days
  /\ \E i \in DOMAIN produced :
       /\ i < settings.window_days
       /\ ~produced[i].active_day
       /\ produced[i].on_track
       /\ produced[i].cumulative_active + (settings.window_days - i)
            < settings.required_active_days
  /\ \E i \in DOMAIN produced :
       /\ i > settings.window_days
       /\ ~produced[i].on_track

\* C7 as stated: summary.on_track is the last snapshot's on_track, and is
\* true iff cumulative_active + b >= required_active_days (b = 1 if the last
\* day is not active), the days that remain being taken as 0.
FinalOnTrackIgnoresRemaining ==
  Returned =>
    /\ summary.on_track = last.on_track
    /\ summary.on_track <=>
         (last.cumulative_active + (IF last.active_day THEN 0 ELSE 1)
            >= settings.required_active_days)

\* C7 amended: summary.on_track is the last snapshot's on_track, and is true
\* iff cumulative_active + max(window_days - n, 0) + b >= required_active_days
\* with n the number of snapshots; the remaining days are 0 only when the
\* sequence spans all window_days.
FinalOnTrack ==
  Returned =>
    /\ summary.on_track = last.on_track
    /\ summary.on_track <=>
         (last.cumulative_active
            + (IF settings.window_days > Len(snaps)
                 THEN settings.window_days - Len(snaps) ELSE 0)
            + (IF last.active_day THEN 0 ELSE 1)
            >= settings.required_active_days)
    /\ (Len(snaps) = settings.window_days =>
          (summary.on_track <=>
             (last.cumulative_active + (IF last.active_day THEN 0 ELSE 1)
                >= settings.required_active_days)))

\* C7 witness: a summary over fewer days than window_days that is on track
\* only through the days that remain.
FinalOnTrackThroughRemaining ==
  /\ Returned
  /\ Len(snaps) < settings.window_days
  /\ summary.on_track
  /\ last.cumulative_active + (IF last.active_day THEN 0 ELSE 1)
       < settings.required_active_days

\* C8: cumulative_active starts from 0, grows by 1 on an active day and by 0
\* on an inactive day, and summary.active_days is the last snapshot's value,
\* the number of active days of the window.
CumulativeActiveChain ==
  Returned =>
    /\ \A i \in DOMAIN snaps :
         snaps[i].cumulative_active =
           (IF i = 1 THEN 0 ELSE snaps[i - 1].cumulative_active)
             + (IF snaps[i].active_day THEN 1 ELSE 0)
    /\ summary.active_days = last.cumulative_active
    /\ summary.active_days = Cardinality({i \in DOMAIN snaps : snaps[i].active_day})

\* C8 witness: two active days with an inactive day between them.
TwoActiveDaysAroundInactive ==
  /\ Returned
  /\ Len(snaps) = 3
  /\ snaps[1].active_day /\ ~snaps[2].active_day /\ snaps[3].active_day
  /\ summary.active_days = 2

\* C9: one snapshot per study day, consecutive and ascending, up to the
\* current study day; a day without events has zero counts and an empty
\* breakdown.
OneSnapshotPerDay ==
  Returned =>
    /\ last.study_day = StudyDayOf(result.now)
    /\ \A i \in DOMAIN snaps : snaps[i].study_day = snaps[1].study_day + (i - 1)
    /\ \A i \in DOMAIN snaps :
         (/\ \A r \in RetrievalsOf(result.user_did) :
                StudyDayOf(r.timestamp) # snaps[i].study_day
          /\ \A r \in EngagementsOf(result.user_did) :
                StudyDayOf(r.timestamp) # snaps[i].study_day)
         => /\ snaps[i].retrievals = 0
            /\ snaps[i].engagements = 0
            /\ DOMAIN snaps[i].engagement_breakdown = {}

\* C9 witness: a three-day sequence whose middle day has no event.
DayWithoutEventsHasSnapshot ==
  /\ Returned
  /\ Len(snaps) = 3
  /\ snaps[1].retrievals > 0
  /\ snaps[2].retrievals = 0 /\ snaps[2].engagements = 0
  /\ snaps[3].retrievals > 0

\* The study day of the participant's earliest retrieval.
FirstStudyDay(did) ==
  StudyDayOf(SetMin({r.timestamp : r \in RetrievalsOf(did)}))

\* C10: the window starts at max(first_study_day,
\* current_study_day - (window_days - 1)), ends at the current study day,
\* has at most window_days snapshots and none before first_study_day.
WindowBounds ==
  Returned =>
    LET first_study_day == FirstStudyDay(result.user_did)
        current_study_day == StudyDayOf(result.now)
        back == current_study_day - (settings.window_days - 1)
    IN  /\ snaps[1].study_day = (IF first_study_day >= back THEN first_study_day ELSE back)
        /\ last.study_day = current_study_day
        /\ Len(snaps) <= settings.window_days
        /\ \A i \in DOMAIN snaps : snaps[i].study_day >= first_study_day

\* C10 witness: a window of full length that starts after the participant's
\* first study day.
WindowCappedByWindowDays ==
  /\ Returned
  /\ Len(snaps) = settings.window_days
  /\ settings.window_days > 1
  /\ FirstStudyDay(result.user_did) < snaps[1].study_day

\* The number of did's engagement records of category et in study day day.
CategoryCount(did, day, et) ==
  BagCardinality(BagOn(engagements,
    {r \in EngagementsOf(did) :
       r.engagement_type = et /\ StudyDayOf(r.timestamp) = day}))

\* C11: in every snapshot, engagement_breakdown maps each category to the
\* number of the participant's engagement records of that category in that
\* study day, categories without a record on that day are absent, and the
\* counts of the breakdown add up to the snapshot's engagements.
BreakdownCountsCategories ==
  Produced =>
    \A i \in DOMAIN produced :
      LET b == produced[i].engagement_breakdown
          n(et) == CategoryCount(result.user_did, produced[i].study_day, et)
      IN  /\ \A et \in EngagementTypes :
               IF n(et) = 0 THEN et \notin DOMAIN b
               ELSE et \in DOMAIN b /\ b[et] = n(et)
          /\ DOMAIN b \subseteq EngagementTypes
          /\ BagCardinality(b) = produced[i].engagements

(***************************************************************************)
(* Properties of get_daily_engagement_breakdown (checked under SpecRange). *)
(***************************************************************************)
Ranged == result.op = "get_daily_engagement_breakdown"

\* The bounds of the call once the defaults are applied: an omitted end_day
\* is the current study day, an omitted start_day is window_days - 1 days
\* before the end.
CurrentStudyDay == StudyDayOf(result.now)
EndOfCall ==
  IF result.end_day.some THEN result.end_day.value ELSE CurrentStudyDay
StartOfCall ==
  IF result.start_day.some THEN result.start_day.value
  ELSE EndOfCall - (settings.window_days - 1)

\* C12: a range with start_day > end_day, after the defaults are applied, is
\* rejected: the call raises, it has issued no store query and it returns no
\* snapshot; a range with start_day <= end_day is not rejected.
InvalidRangeRejected ==
  Ranged =>
    /\ result.ret.raised <=> StartOfCall > EndOfCall
    /\ result.ret.raised =>
         result.ret.queries = <<>> /\ result.ret.snapshots = <<>>

\* C12 witness: a call rejected because the explicit start_day is after the
\* default end_day.
RejectedAgainstDefaultEnd ==
  /\ Ranged
  /\ result.start_day.some /\ ~result.end_day.some
  /\ result.start_day.value > CurrentStudyDay
  /\ result.ret.raised
  /\ result.ret.queries = <<>>

\* C15 as stated: an omitted end_day becomes the current study day and an
\* omitted start_day becomes current_study_day - window_days + 1, also when
\* the other bound is given.
DefaultsFromCurrentStudyDay ==
  Listed =>
    /\ ~result.end_day.some =>
         produced[Len(produced)].study_day = CurrentStudyDay
    /\ ~result.start_day.some =>
         produced[1].study_day = CurrentStudyDay - settings.window_days + 1

\* C15 amended: an omitted end_day becomes the current study day and an
\* omitted start_day becomes end_day - window_days + 1, end_day being the
\* bound given or else the current study day; given bounds are kept.
DefaultsFromEndDay ==
  Listed =>
    /\ produced[Len(produced)].study_day =
         (IF result.end_day.some THEN result.end_day.value ELSE CurrentStudyDay)
    /\ produced[1].study_day =
         (IF result.start_day.some THEN result.start_day.value
          ELSE produced[Len(produced)].study_day - settings.window_days + 1)

\* C15 witness: start_day omitted with an end_day given that is not the
\* current study day; the range is the window_days days up to end_day.
DefaultStartFollowsGivenEnd ==
  /\ Listed
  /\ ~result.start_day.some /\ result.end_day.some
  /\ result.end_day.value # CurrentStudyDay
  /\ settings.window_days > 1
  /\ Len(produced) = settings.window_days
  /\ produced[Len(produced)].study_day = result.end_day.value

(***************************************************************************)
(* The no-data condition of compute_window_summary (under SpecWindow).     *)
(***************************************************************************)
\* The study day of ts is one of the window_days days that end at the
\* current study day of the call.
InWindowOfCall(ts) ==
  /\ StudyDayOf(ts) >= CurrentStudyDay - (settings.window_days - 1)
  /\ StudyDayOf(ts) <= CurrentStudyDay

\* C13: a participant with no retrieval and no engagement event inside the
\* window gets no summary, also when there are events before the window.
NoDataInWindowNoSummary ==
  (/\ Called
   /\ \A r \in RetrievalsOf(result.user_did) : ~InWindowOfCall(r.timestamp)
   /\ \A r \in EngagementsOf(result.user_did) : ~InWindowOfCall(r.timestamp))
  => ~result.ret.some

(***************************************************************************)
(* Validation of the cutoff hour (checked under SpecConfig).               *)
(***************************************************************************)
Configured == result.op \in {"Settings", "with_overrides"}

\* C14: a cutoff_hour_local outside 0..23 is rejected when the settings are
\* constructed or overridden, so the computations never run under, and never
\* fail on, such a cutoff.
InvalidCutoffRejectedAtLoad ==
  /\ (Configured /\ result.cutoff_hour_local \notin 0..23) => result.raised
  /\ (Called \/ Ranged) =>
       /\ settings.cutoff_hour_local \in 0..23
       /\ ~("raised" \in DOMAIN result.ret /\ result.ret.raised
              /\ result.op = "compute_window_summary")

(***************************************************************************)
(* Agreement of the two entry points (checked under SpecAgree).            *)
(***************************************************************************)
\* The day-range query was called over the days of a returned summary.
Compared == Ranged /\ "summary" \in DOMAIN result

\* C16: the day-range query over [first snapshot day, last snapshot day] of
\* a returned summary gives the summary's snapshots field by field; and for
\* a participant without events it gives one zero-count snapshot per day of
\* the range, with no first-activity floor.
EntryPointsAgree ==
  /\ Compared =>
       /\ ~result.ret.raised
       /\ Len(result.ret.snapshots) = Len(result.summary.snapshots)
       /\ \A i \in DOMAIN result.ret.snapshots :
            LET a == result.ret.snapshots[i]
                b == result.summary.snapshots[i]
            IN  /\ a.study_day = b.study_day
                /\ a.retrievals = b.retrievals
                /\ a.engagements = b.engagements
                /\ a.engagement_breakdown = b.engagement_breakdown
                /\ a.active_day = b.active_day
                /\ a.cumulative_active = b.cumulative_active
                /\ a.on_track = b.on_track
  /\ (/\ Ranged
      /\ RetrievalsOf(result.user_did) = {}
      /\ EngagementsOf(result.user_did) = {}
      /\ StartOfCall <= EndOfCall) =>
       /\ ~result.ret.raised
       /\ Len(result.ret.snapshots) = EndOfCall - StartOfCall + 1
       /\ \A i \in DOMAIN result.ret.snapshots :
            /\ result.ret.snapshots[i].study_day = StartOfCall + (i - 1)
            /\ result.ret.snapshots[i].retrievals = 0
            /\ result.ret.snapshots[i].engagements = 0

\* C16 witness: the two entry points compared on a summary of three days
\* whose first and last days carry activity, the last being active.
AgreementOnThreeDays ==
  /\ Compared
  /\ Len(result.summary.snapshots) = 3
  /\ result.summary.snapshots[1].retrievals > 0
  /\ result.summary.snapshots[3].active_day
  /\ result.ret.snapshots = result.summary.snapshots

(***************************************************************************)
(* Independence of the participants (checked under SpecBatch).             *)
(***************************************************************************)
Batching == result.op = "_summaries_for_participants"

\* The participants the batch has computed so far.
ComputedSoFar ==
  { result.participants[i] : i \in 1..result.index }

\* C17: the summary computed for a participant depends on the participant's
\* own events, the settings and now only: whatever rows of other users were
\* added or removed since, and whatever was computed before or after it, it
\* is the value the computation gives for the participant now; and a
\* computation writes nothing to the store.
ParticipantIndependence ==
  /\ [](Batching =>
         \A did \in Participants \cap ComputedSoFar :
           LET ret == compute_window_summary(did, settings, result.now)
           IN  IF did \in DOMAIN result.summaries
                 THEN ret.some /\ ret.value = result.summaries[did]
                 ELSE ~ret.some)
  /\ [][result' # result =>
          feed_requests' = feed_requests /\ engagements' = engagements]_vars

\* C17 witness: the participant's summary was computed first, the other
\* user's summary after it, and the other user's rows of the day of the
\* participant's activity were removed in between.
SummaryKeptWhileOthersChange ==
  /\ Batching
  /\ result.index = 2
  /\ result.participants[1] \in Participants
  /\ DOMAIN result.summaries = Participants
  /\ \E did \in Participants : result.summaries[did].snapshots[1].retrievals > 0
  /\ \A did \in OtherDIDs : RetrievalsOf(did) = {}

(***************************************************************************)
(* Properties of set_participant_status (checked under SpecStatus).        *)
(***************************************************************************)
\* The stored status of did, "" when there is no row.
StoredStatus(did) ==
  IF \E i \in DOMAIN participants : participants[i].user_did = did
    THEN participants[CHOOSE i \in DOMAIN participants :
                        participants[i].user_did = did].status
    ELSE ""

\* The tables are as they were before the step.
MailTablesKept ==
  /\ participants' = participants
  /\ participant_status_history' = participant_status_history

\* C18: what one call of set_participant_status does to participants and
\* the history: an unsupported status or an unknown DID raises and writes
\* nothing; the stored status again writes nothing and returns changed =
\* False with reason and changed_by None; a different status replaces the
\* status of that participant alone, appends exactly one history row
\* (old, new, reason, changed_by) and returns changed = True.
StatusChangeFrame ==
  [][(result = Idle /\ result'.op = "set_participant_status") =>
      LET call == result'
          wanted == lower(strip(call.new_status))
          old == StoredStatus(call.user_did)
      IN  /\ wanted \notin ALLOWED_STATUSES =>
               call.raised = "InvalidStatusError" /\ MailTablesKept
          /\ (wanted \in ALLOWED_STATUSES /\ old = "") =>
               call.raised = "ParticipantNotFoundError" /\ MailTablesKept
          /\ (wanted \in ALLOWED_STATUSES /\ old # "" /\ old = wanted) =>
               /\ call.raised = ""
               /\ MailTablesKept
               /\ ~call.ret.value.changed
               /\ call.ret.value.reason = None
               /\ call.ret.value.changed_by = None
          /\ (wanted \in ALLOWED_STATUSES /\ old # "" /\ old # wanted) =>
               /\ call.raised = ""
               /\ call.ret.value.changed
               /\ Len(participants') = Len(participants)
               /\ \A i \in DOMAIN participants :
                    /\ participants'[i].user_did = participants[i].user_did
                    /\ participants'[i].email = participants[i].email
                    /\ participants'[i].status =
                         (IF participants[i].user_did = call.user_did
                            THEN wanted ELSE participants[i].status)
               /\ Len(participant_status_history')
                    = Len(participant_status_history) + 1
               /\ SubSeq(participant_status_history', 1,
                         Len(participant_status_history))
                    = participant_status_history
               /\ LET row == participant_status_history'[
                               Len(participant_status_history')]
                  IN  /\ participants[row.participant_id].user_did = call.user_did
                      /\ row.old_status = old
                      /\ row.new_status = wanted
                      /\ row.reason = call.ret.value.reason
                      /\ row.changed_by = call.ret.value.changed_by
                      /\ call.reason.some => row.reason.some
                      /\ call.changed_by.some => row.changed_by.some
  ]_vars

\* C18 witness: a second change of status, written in upper case and with
\* blanks around it, appended to a history that already has a row.
SecondStatusChangeRecorded ==
  /\ result.op = "set_participant_status"
  /\ result.new_status = " Unsubscribed "
  /\ result.raised = ""
  /\ result.ret.value.changed
  /\ Len(participant_status_history) = 2
  /\ StoredStatus(result.user_did) = "unsubscribed"

(***************************************************************************)
(* Properties of upsert_participants (checked under SpecUpsert).           *)
(***************************************************************************)
\* The positions of the records of a call that carry the DID did.
RecordsOf(records, did) ==
  { k \in DOMAIN records : strip(records[k].did) = did }

\* The status a record carries: its status column, "active" when blank.
CarriedStatus(record) ==
  IF strip(record.status) = "" THEN "active" ELSE strip(record.status)

\* Each DID has at most one row.
OneRowPerDID ==
  \A i \in DOMAIN participants, j \in DOMAIN participants :
    participants[i].user_did = participants[j].user_did => i = j

\* C19: one call of upsert_participants leaves the status of every stored
\* participant as it was, whatever status the records carry; a stored
\* participant whose only record brings a non-empty, different email gets
\* that email and counts as updated; the first record of a new DID with a
\* non-empty email is inserted with the status it carries; and each DID
\* keeps at most one row.
UpsertPreservesStatus ==
  [][(result = Idle /\ result'.op = "upsert_participants") =>
      LET records == result'.records
      IN  /\ \A i \in DOMAIN participants :
               /\ i \in DOMAIN participants'
               /\ participants'[i].user_did = participants[i].user_did
               /\ participants'[i].status = participants[i].status
               /\ \A k \in DOMAIN records :
                    ( /\ RecordsOf(records, participants[i].user_did) = {k}
                      /\ strip(records[k].email) # ""
                      /\ strip(records[k].email) # participants[i].email )
                    => /\ participants'[i].email = strip(records[k].email)
                       /\ result'.raised = ""
                       /\ result'.ret.value.updated >= 1
          /\ \A k \in DOMAIN records :
               LET did == strip(records[k].did)
               IN  ( /\ did # ""
                     /\ strip(records[k].email) # ""
                     /\ ~ \E i \in DOMAIN participants :
                            participants[i].user_did = did
                     /\ \A j \in RecordsOf(records, did) : k <= j )
                   => \E i \in DOMAIN participants' :
                        /\ participants'[i].user_did = did
                        /\ participants'[i].status = CarriedStatus(records[k])
          /\ \A i \in DOMAIN participants', j \in DOMAIN participants' :
               participants'[i].user_did = participants'[j].user_did => i = j
  ]_vars

\* The same, for the calls in which no new DID comes twice.
UpsertPreservesStatusOfDistinct ==
  [][(/\ result = Idle
      /\ result'.op = "upsert_participants"
      /\ \A k \in DOMAIN result'.records, j \in DOMAIN result'.records :
           ( /\ strip(result'.records[k].did) = strip(result'.records[j].did)
             /\ k # j )
           => \/ \E i \in DOMAIN participants :
                   participants[i].user_did = strip(result'.records[k].did)
              \/ strip(result'.records[k].email) = ""
              \/ strip(result'.records[j].email) = "")
     => /\ result'.raised = ""
        /\ \A i \in DOMAIN participants :
             /\ i \in DOMAIN participants'
             /\ participants'[i].status = participants[i].status
        /\ \A k \in DOMAIN result'.records :
             LET did == strip(result'.records[k].did)
             IN  ( /\ did # ""
                   /\ strip(result'.records[k].email) # ""
                   /\ ~ \E i \in DOMAIN participants :
                          participants[i].user_did = did
                   /\ \A j \in RecordsOf(result'.records, did) : k <= j )
                 => \E i \in DOMAIN participants' :
                      /\ participants'[i].user_did = did
                      /\ participants'[i].status =
                           CarriedStatus(result'.records[k])
  ]_vars

\* An upsert that carried "active" for a participant set to unsubscribed by
\* hand, and left the override in place.
OverrideSurvivedUpsert ==
  /\ result.op = "upsert_participants"
  /\ result.raised = ""
  /\ Len(participant_status_history) = 1
  /\ \E i \in DOMAIN participants, k \in DOMAIN result.records :
       /\ participants[i].user_did = strip(result.records[k].did)
       /\ participants[i].status = "unsubscribed"
       /\ result.records[k].status = "active"
       /\ result.ret.value.updated >= 1

(***************************************************************************)
(* Properties of send-daily (checked under SpecSend).                      *)
(***************************************************************************)
\* compute_window_summary returns a summary for did at the instant of the run.
HasSummary(did) ==
  compute_window_summary(did, settings, result.now).some

\* C20: in a run of send-daily every call of MailSender.send is for a
\* participant whose status in mail.db is active and for whom
\* compute_window_summary returned a summary, at the address of that
\* participant; when no participant has a summary nothing is sent.
SendOnlyToActiveWithSummary ==
  result.op = "send_daily" =>
    /\ \A k \in DOMAIN outbox :
         /\ StoredStatus(outbox[k].user_did) = "active"
         /\ StoredStatus(outbox[k].user_did) \notin {"inactive", "unsubscribed"}
         /\ HasSummary(outbox[k].user_did)
         /\ \E i \in DOMAIN participants :
              /\ participants[i].user_did = outbox[k].user_did
              /\ participants[i].email = outbox[k].recipient
    /\ (\A did \in Roster : ~HasSummary(did)) => outbox = <<>>

\* C20 witness: a finished run that sent one message, to did:b, while did:a
\* has a summary but was unsubscribed by hand.
UnsubscribedSkippedOtherSent ==
  /\ result.op = "send_daily"
  /\ result.pc = "done"
  /\ Len(outbox) = 1
  /\ outbox[1].user_did = "did:b"
  /\ StoredStatus("did:a") = "unsubscribed"
  /\ Len(participant_status_history) = 1
  /\ HasSummary("did:a")

(***************************************************************************)
(* Properties of MailSender.send (checked under SpecMailer).               *)
(***************************************************************************)
\* A call of send is over: it returned or raised.
SendEnded ==
  result.op = "send" /\ result.pc \in {"returned", "raised"}

\* C21: a call of send for a participant of mail.db records exactly one
\* attempt, with the mode of the call, and by the time the call returns or
\* raises the attempt is sent (the call returned) or failed (the delivery
\* raised); no attempt is left queued once no call of send is under way.
SendAttemptFinalised ==
  /\ (SendEnded /\ participant_id_of(result.user_did) # 0) =>
       /\ Len(send_attempts) = result.attempts_before + 1
       /\ send_attempts[Len(send_attempts)].mode = result.mode
       /\ send_attempts[Len(send_attempts)].participant_id
            = participant_id_of(result.user_did)
       /\ result.pc = "returned" =>
            send_attempts[Len(send_attempts)].status = "sent"
       /\ result.pc = "raised" =>
            send_attempts[Len(send_attempts)].status = "failed"
  /\ (result.op # "send" \/ result.pc # "recorded") =>
       \A i \in DOMAIN send_attempts : send_attempts[i].status # "queued"

\* The same, for the calls that return and the live calls that raise.
SendAttemptFinalisedUnlessDryRunRaises ==
  (SendEnded /\ participant_id_of(result.user_did) # 0
     /\ ~(result.mode = "dry-run" /\ result.pc = "raised")) =>
    /\ Len(send_attempts) = result.attempts_before + 1
    /\ send_attempts[Len(send_attempts)].mode = result.mode
    /\ send_attempts[Len(send_attempts)].status
         = (IF result.pc = "returned" THEN "sent" ELSE "failed")

(***************************************************************************)
(* Properties of mark_send_attempt_bounced (checked under SpecBounce).     *)
(***************************************************************************)
\* The attempts of the participant of did.
AttemptsOf(did) ==
  { i \in DOMAIN send_attempts :
      /\ send_attempts[i].participant_id \in DOMAIN participants
      /\ participants[send_attempts[i].participant_id].user_did = did }

\* i is the most recent attempt of did: greatest created_at, then greatest
\* attempt_id.
MostRecent(did, i) ==
  /\ i \in AttemptsOf(did)
  /\ \A j \in AttemptsOf(did) :
       \/ send_attempts[j].created_at < send_attempts[i].created_at
       \/ send_attempts[j].created_at = send_attempts[i].created_at /\ j <= i

\* The step is a call of mark_send_attempt_bounced, with a reason, for a
\* participant that exists and has a send attempt.
BounceOfAttempt ==
  /\ result = Idle
  /\ result'.op = "mark_send_attempt_bounced"
  /\ result'.reason.some
  /\ AttemptsOf(result'.user_did) # {}

\* What the call does to the attempts and to the other participants.
BounceMarksLatest ==
  /\ result'.raised = ""
  /\ Len(send_attempts') = Len(send_attempts)
  /\ \A i \in DOMAIN send_attempts :
       IF MostRecent(result'.user_did, i)
         THEN /\ send_attempts'[i].status = "failed"
              /\ send_attempts'[i].smtp_response = result'.reason
              /\ send_attempts'[i].participant_id = send_attempts[i].participant_id
              /\ send_attempts'[i].created_at = send_attempts[i].created_at
         ELSE send_attempts'[i] = send_attempts[i]
  /\ Len(participants') = Len(participants)
  /\ \A i \in DOMAIN participants :
       IF participants[i].user_did = result'.user_did
         THEN /\ participants'[i].status = "inactive"
              /\ participants'[i].email = participants[i].email
              /\ participants'[i].user_did = participants[i].user_did
         ELSE participants'[i] = participants[i]

\* The history gains one row, for the participant, to inactive, with the
\* reason.
BounceAppendsHistory ==
  /\ Len(participant_status_history') = Len(participant_status_history) + 1
  /\ SubSeq(participant_status_history', 1, Len(participant_status_history))
       = participant_status_history
  /\ LET row == participant_status_history'[Len(participant_status_history')]
     IN  /\ participants[row.participant_id].user_did = result'.user_did
         /\ row.old_status = StoredStatus(result'.user_did)
         /\ row.new_status = "inactive"
         /\ row.reason = result'.reason

\* C22 as stated: the call marks the most recent attempt of the participant
\* as failed with the reason, sets the participant to inactive, appends a
\* history row carrying the reason, and leaves the rest unchanged.
BounceAlwaysAppendsHistory ==
  [][BounceOfAttempt => (BounceMarksLatest /\ BounceAppendsHistory)]_vars

\* C22: the call marks the most recent attempt of the participant as failed
\* with the reason, sets the participant to inactive and leaves the other
\* attempts and participants unchanged; it appends a history row carrying
\* the reason when the participant was not inactive already, and leaves the
\* history unchanged when it was.
BounceAppendsHistoryOnChange ==
  [][BounceOfAttempt =>
      /\ BounceMarksLatest
      /\ IF StoredStatus(result'.user_did) = "inactive"
           THEN participant_status_history' = participant_status_history
           ELSE BounceAppendsHistory]_vars

\* C22 witness: a bounce for a participant with two attempts of the same
\* second: the later one is failed, the earlier one still sent, the
\* participant inactive with a history row.
LaterOfTwoAttemptsBounced ==
  /\ result.op = "mark_send_attempt_bounced"
  /\ result.raised = ""
  /\ result.reason.some
  /\ \E i, j \in AttemptsOf(result.user_did) :
       /\ i < j
       /\ send_attempts[i].created_at = send_attempts[j].created_at
       /\ send_attempts[i].status = "sent"
       /\ send_attempts[j].status = "failed"
       /\ send_attempts[j].smtp_response = result.reason
  /\ StoredStatus(result.user_did) = "inactive"
  /\ Len(participant_status_history) = 1

(***************************************************************************)
(* Properties of apply_migrations (checked under SpecMigrate).             *)
(***************************************************************************)
\* C23: apply_migrations on a database that records a version of at most
\* SCHEMA_VERSION applies the versions after the recorded one up to
\* SCHEMA_VERSION in ascending order (all of 1..SCHEMA_VERSION on a new
\* database, none on a current one), records SCHEMA_VERSION and returns it.
MigrationsReachSchemaVersion ==
  (result.op = "apply_migrations" /\ result.before <= SCHEMA_VERSION) =>
    /\ result.raised = ""
    /\ result.ret = Some(SCHEMA_VERSION)
    /\ schema_version = SCHEMA_VERSION
    /\ Len(result.applied) = SCHEMA_VERSION - result.before
    /\ \A i \in DOMAIN result.applied : result.applied[i] = result.before + i

\* On a database that records SCHEMA_VERSION the call applies nothing and
\* returns SCHEMA_VERSION.
MigrationsNoOpWhenCurrent ==
  (result.op = "apply_migrations" /\ result.before = SCHEMA_VERSION) =>
    /\ result.raised = ""
    /\ result.ret = Some(SCHEMA_VERSION)
    /\ schema_version = SCHEMA_VERSION
    /\ result.applied = <<>>

(***************************************************************************)
(* Conservation, reachability of the empty sequence, monotonicity and      *)
(* independence of `now` (checked under SpecWindow).                       *)
(***************************************************************************)
RECURSIVE SumOver(_, _)
SumOver(seq, field) ==
  IF seq = <<>> THEN 0
  ELSE (IF field = "retrievals" THEN Head(seq).retrievals
        ELSE Head(seq).engagements) + SumOver(Tail(seq), field)

\* The bounds the two range queries of the call were made with.
QueryStart ==
  _study_day_start(snaps[1].study_day, settings.tz, settings.cutoff_hour_local)
QueryEnd ==
  _study_day_start(last.study_day + 1, settings.tz, settings.cutoff_hour_local)

\* C24: the retrievals of the snapshots add up to the number of retrieval
\* instants the range query returned, and the engagements to the number of
\* engagement records it returned: every returned event is counted in one
\* study day of the sequence.
EventsConserved ==
  Returned =>
    /\ SumOver(snaps, "retrievals")
         = BagCardinality(_fetch_timestamps(result.user_did, QueryStart, QueryEnd))
    /\ SumOver(snaps, "engagements")
         = BagCardinality(_fetch_engagement_records(result.user_did,
                                                    QueryStart, QueryEnd))

\* The study day of the participant's earliest retrieval.
FirstStudyDayOf(did) ==
  StudyDayOf(SetMin({r.timestamp : r \in RetrievalsOf(did)}))

\* C25 as stated: whenever the participant has a retrieval the call returns
\* a summary with at least one snapshot, for every `now` and every event
\* timestamp.
EarliestRetrievalGivesSummary ==
  (Called /\ RetrievalsOf(result.user_did) # {}) =>
    result.ret.some /\ Len(snaps) >= 1

\* C25: whenever the participant has a retrieval and the study day of the
\* earliest one is not later than the current study day, the call returns a
\* summary with at least one snapshot; the empty day sequence, and with it
\* no result, is what a `now` before that study day gets.
EarliestRetrievalNotAfterNowGivesSummary ==
  (Called /\ RetrievalsOf(result.user_did) # {}) =>
    IF FirstStudyDayOf(result.user_did) <= CurrentStudyDay
      THEN result.ret.some /\ Len(snaps) >= 1
      ELSE ~result.ret.some

\* C25 witness: the earliest retrieval falls in the current study day of a
\* window of several days, and the summary has that one day.
SummaryOfFirstDayAlone ==
  /\ Called
  /\ RetrievalsOf(result.user_did) # {}
  /\ FirstStudyDayOf(result.user_did) = CurrentStudyDay
  /\ settings.window_days >= 2
  /\ result.ret.some
  /\ Len(snaps) = 1

\* C26: in the snapshot sequence of a summary, which has at most
\* window_days days, on_track never comes back: once it is false on a day
\* it is false on every later day.
OnTrackMonotone ==
  Returned =>
    /\ Len(snaps) <= settings.window_days
    /\ \A i, j \in DOMAIN snaps :
         (i < j /\ ~snaps[i].on_track) => ~snaps[j].on_track

\* C26 witness: a summary of three days that is on track on the first day
\* and off track on the second and the third.
OffTrackFromSecondDay ==
  /\ Returned
  /\ Len(snaps) = 3
  /\ snaps[1].on_track
  /\ ~snaps[2].on_track
  /\ ~snaps[3].on_track

\* The number of the participant's retrievals, and of its engagement
\* records, whose study day is day.
RetrievalCount(did, day) ==
  BagCardinality(BagOn(feed_requests,
    {r \in RetrievalsOf(did) : StudyDayOf(r.timestamp) = day}))
EngagementCount(did, day) ==
  BagCardinality(BagOn(engagements,
    {r \in EngagementsOf(did) : StudyDayOf(r.timestamp) = day}))

\* C27: what a summary reports for a study day is the same in the summary
\* of every `now` whose window contains the day, first day of the window or
\* not, and is the count of the participant's events of that study day.
DayCountsIndependentOfNow ==
  Returned =>
    \A i \in DOMAIN snaps :
      /\ snaps[i].retrievals = RetrievalCount(result.user_did, snaps[i].study_day)
      /\ snaps[i].engagements = EngagementCount(result.user_did, snaps[i].study_day)
      /\ \A now \in NowTimes :
           LET other == compute_window_summary(result.user_did, settings, now)
           IN  other.some =>
                 \A j \in DOMAIN other.value.snapshots :
                   LET theirs == other.value.snapshots[j]
                   IN  theirs.study_day = snaps[i].study_day =>
                         /\ theirs.retrievals = snaps[i].retrievals
                         /\ theirs.engagements = snaps[i].engagements
                         /\ theirs.engagement_breakdown
                              = snaps[i].engagement_breakdown
                         /\ theirs.active_day = snaps[i].active_day

(***************************************************************************)
(* Properties of the roster over its life (checked under SpecRoster).      *)
(***************************************************************************)
\* C28: in every state of mail.db the status of every participant is one
\* of active, inactive and unsubscribed.
StatusesAllowed ==
  \A i \in DOMAIN participants : participants[i].status \in ALLOWED_STATUSES

(***************************************************************************)
(* Properties of the audit trail under concurrent status changes (checked  *)
(* under SpecAudit).                                                       *)
(***************************************************************************)
\* the status-history rows of one participant, in insertion order
HistoryRowsOf(participant_id) ==
  LET own(row) == row.participant_id = participant_id
  IN  SelectSeq(participant_status_history, own)

\* C29: the status-history rows of each participant form a chain: every row
\* changes the status, every row starts from the status the previous row
\* ended with, and the last row ends with the participant's current status.
AuditTrailIsChain ==
  \A participant_id \in DOMAIN participants :
    LET rows == HistoryRowsOf(participant_id)
    IN  /\ \A k \in DOMAIN rows :
             /\ rows[k].old_status # rows[k].new_status
             /\ k > 1 => rows[k].old_status = rows[k - 1].new_status
        /\ rows # <<>> =>
             rows[Len(rows)].new_status = participants[participant_id].status

(***************************************************************************)
(* Properties of scan_bounces (checked under SpecScan).                    *)
(***************************************************************************)
ScanEnded == result.op = "scan_bounces" /\ result.pc \in {"returned", "raised"}

ListedIn(list, value) == \E k \in DOMAIN list : list[k] = value

\* every recipient of a fetched message is matched (its participant is
\* inactive and listed in participants_updated) or listed as unmatched
RecipientsAccounted ==
  \A msg_id \in result.fetched :
    \A k \in DOMAIN mailbox[msg_id].recipients :
      LET recipient == mailbox[msg_id].recipients[k]
          user_did == find_participant_by_email(recipient)
      IN  \/ ListedIn(result.unmatched_recipients, recipient)
          \/ /\ user_did # ""
             /\ ListedIn(result.participants_updated, user_did)
             /\ participants[participant_id_of(user_did)].status = "inactive"

\* C30: a scan with mark_seen = True ends by returning its BounceOutcome,
\* with every fetched message flagged \Seen and every recipient matched or
\* listed as unmatched, a participant without send attempt included; no
\* fetched message is left for the next scan.
ScanCompletes ==
  ScanEnded =>
    /\ result.pc = "returned"
    /\ result.messages_seen = Cardinality(result.fetched)
    /\ \A msg_id \in result.fetched : mailbox[msg_id].seen
    /\ RecipientsAccounted
    /\ \A k \in DOMAIN unseen_ids : ~mailbox[unseen_ids[k]].fetch_ok

====
